---- MODULE Spec2Model ----
(***************************************************************************)
(* Onboarding Buddy Agent: the /execute request router (main.py), its      *)
(* input parser, the domain services it dispatches to and the persistent   *)
(* store they share (application/database.py).                             *)
(*                                                                         *)
(* Python values are modelled as follows.  A str is a TLA+ string and is   *)
(* inspected character by character with Len and SubSeq.  None is the      *)
(* sentinel None.  A dict is a function whose domain is its set of keys.   *)
(* Positions in a string are 1-based; 0 stands for "not found" where       *)
(* Python's str.find returns -1 and where re.search returns no match.      *)
(***************************************************************************)
EXTENDS Integers, Sequences, FiniteSets, TLC

\* ------------------------------------------------------------------------
\* Python value helpers
\* ------------------------------------------------------------------------

None == "<None>"

\* Python truthiness of an Optional[str]: None and "" are falsy.
Truthy(v) == v # None /\ v # ""

EmptyDict == [k \in {} |-> None]

\* dict.get(key) and dict.get(key, default)
Get(d, k) == IF k \in DOMAIN d THEN d[k] ELSE None

GetOr(d, k, default) == IF k \in DOMAIN d THEN d[k] ELSE default

\* d[k] = v
Put(d, k, v) == [x \in (DOMAIN d) \cup {k} |-> IF x = k THEN v ELSE d[x]]

\* ------------------------------------------------------------------------
\* Character classes and str methods
\* ------------------------------------------------------------------------

UpperChars == "ABCDEFGHIJKLMNOPQRSTUVWXYZ"

LowerChars == "abcdefghijklmnopqrstuvwxyz"

DigitChars == "0123456789"

CharAt(s, i) == IF i >= 1 /\ i <= Len(s) THEN SubSeq(s, i, i) ELSE ""

InClass(c, class) == c # "" /\ \E i \in 1..Len(class) : SubSeq(class, i, i) = c

IsUpper(c) == InClass(c, UpperChars)

IsLower(c) == InClass(c, LowerChars)

IsDigit(c) == InClass(c, DigitChars)

\* regex \s (the texts are ASCII)
IsSpace(c) == c = " "

\* regex \w
IsWord(c) == IsUpper(c) \/ IsLower(c) \/ IsDigit(c) \/ c = "_"

\* regex [a-f0-9]
IsHex(c) == InClass(c, "abcdef0123456789")

\* regex [a-f0-9-]
IsHexDash(c) == IsHex(c) \/ c = "-"

ToLowerChar(c) ==
    IF IsUpper(c)
    THEN SubSeq(LowerChars, CHOOSE i \in 1..26 : SubSeq(UpperChars, i, i) = c,
                            CHOOSE i \in 1..26 : SubSeq(UpperChars, i, i) = c)
    ELSE c

\* str.lower()
RECURSIVE StrLower(_)
StrLower(s) ==
    IF s = "" THEN "" ELSE ToLowerChar(SubSeq(s, 1, 1)) \o StrLower(SubSeq(s, 2, Len(s)))

\* str.replace(" ", ".")
RECURSIVE ReplaceSpaceByDot(_)
ReplaceSpaceByDot(s) ==
    IF s = "" THEN ""
    ELSE (IF SubSeq(s, 1, 1) = " " THEN "." ELSE SubSeq(s, 1, 1))
         \o ReplaceSpaceByDot(SubSeq(s, 2, Len(s)))

\* value = ...; Body(value): binds a value that the body uses more than once
With(value, Body(_)) == Body(value)

\* s[i..] starts with lit
MatchAt(s, i, lit) ==
    /\ i >= 1
    /\ i + Len(lit) - 1 <= Len(s)
    /\ SubSeq(s, i, i + Len(lit) - 1) = lit

\* str.find(sub, start): least position >= start where sub occurs, 0 if none
Find(s, sub, start) ==
    LET hits == {i \in start..Len(s) + 1 : MatchAt(s, i, sub)}
    IN IF hits = {} THEN 0 ELSE CHOOSE i \in hits : \A j \in hits : i <= j

\* sub in s
Contains(s, sub) == Find(s, sub, 1) # 0

\* str.strip()
StrStrip(s) ==
    LET keep == {i \in 1..Len(s) : ~IsSpace(SubSeq(s, i, i))}
    IN IF keep = {} THEN ""
       ELSE SubSeq(s, CHOOSE i \in keep : \A j \in keep : i <= j,
                      CHOOSE i \in keep : \A j \in keep : i >= j)

\* str.zfill(2) of a string of one or two digits
ZFill2(s) == IF Len(s) < 2 THEN "0" \o s ELSE s

\* end of the longest run of characters of a class that starts at i:
\* the position after the run (= i when the run is empty)
RunEnd(s, i, InCls(_)) ==
    LET stops == {j \in i..Len(s) + 1 : j = Len(s) + 1 \/ ~InCls(CharAt(s, j))}
    IN IF i > Len(s) THEN i ELSE CHOOSE j \in stops : \A k \in stops : j <= k

\* leftmost position satisfying a predicate, 0 if none (re.search scans left to right)
Leftmost(s, P(_)) ==
    LET hits == {i \in 1..Len(s) : P(i)}
    IN IF hits = {} THEN 0 ELSE CHOOSE i \in hits : \A j \in hits : i <= j

\* ------------------------------------------------------------------------
\* main.py: field extractors used by parse_input
\* ------------------------------------------------------------------------

\* r'<word>[_\s]?id[:\s]+([a-f0-9-]+)' matched at position i: group 1, "" if no match
IdPattern1Group(t, i, word) ==
    With(IF CharAt(t, i + Len(word)) = "_" \/ IsSpace(CharAt(t, i + Len(word)))
         THEN i + Len(word) + 1 ELSE i + Len(word), LAMBDA j1 :
    With(RunEnd(t, j1 + 2, LAMBDA c : c = ":" \/ IsSpace(c)), LAMBDA j3 :
    With(RunEnd(t, j3, IsHexDash), LAMBDA j4 :
        IF MatchAt(t, i, word) /\ MatchAt(t, j1, "id") /\ j3 > j1 + 2 /\ j4 > j3
        THEN SubSeq(t, j3, j4 - 1)
        ELSE "")))

\* r'<stem>[-_]([a-f0-9-]+)' matched at position i: group 1, "" if no match
IdPattern2Group(t, i, stem) ==
    With(RunEnd(t, i + Len(stem) + 1, IsHexDash), LAMBDA j3 :
        IF /\ MatchAt(t, i, stem)
           /\ CharAt(t, i + Len(stem)) \in {"-", "_"}
           /\ j3 > i + Len(stem) + 1
        THEN SubSeq(t, i + Len(stem) + 1, j3 - 1)
        ELSE "")

AllInClass(t, i, n, InCls(_)) ==
    i + n - 1 <= Len(t) /\ \A k \in i..(i + n - 1) : InCls(CharAt(t, k))

\* r'([a-f0-9]{8}-[a-f0-9]{4}-[a-f0-9]{4}-[a-f0-9]{4}-[a-f0-9]{12})' matched at i
UuidAt(t, i) ==
    /\ AllInClass(t, i, 8, IsHex) /\ CharAt(t, i + 8) = "-"
    /\ AllInClass(t, i + 9, 4, IsHex) /\ CharAt(t, i + 13) = "-"
    /\ AllInClass(t, i + 14, 4, IsHex) /\ CharAt(t, i + 18) = "-"
    /\ AllInClass(t, i + 19, 4, IsHex) /\ CharAt(t, i + 23) = "-"
    /\ AllInClass(t, i + 24, 12, IsHex)

\* the three patterns shared by extract_employee_id and extract_task_id
ExtractId(text_lower, word, stem) ==
    With(Leftmost(text_lower, LAMBDA i : IdPattern1Group(text_lower, i, word) # ""),
         LAMBDA p1 :
        IF p1 # 0 THEN IdPattern1Group(text_lower, p1, word)
        ELSE With(Leftmost(text_lower, LAMBDA i : IdPattern2Group(text_lower, i, stem) # ""),
                  LAMBDA p2 :
            IF p2 # 0 THEN stem \o "-" \o IdPattern2Group(text_lower, p2, stem)
            ELSE With(Leftmost(text_lower, LAMBDA i : UuidAt(text_lower, i)), LAMBDA p3 :
                IF p3 # 0 THEN SubSeq(text_lower, p3, p3 + 35) ELSE None)))

extract_employee_id(text_lower) == ExtractId(text_lower, "employee", "emp")

extract_task_id(text_lower) == ExtractId(text_lower, "task", "task")

\* [A-Z][a-z]+ matched at j: the position after the word, 0 if no match
CapWordEnd(t, j) ==
    IF IsUpper(CharAt(t, j)) /\ IsLower(CharAt(t, j + 1))
    THEN RunEnd(t, j + 1, IsLower)
    ELSE 0

\* greedy (?:\s+[A-Z][a-z]+){0,n} after a word that ends before e: the position
\* after the last word taken
RECURSIVE MoreCapWords(_, _, _)
MoreCapWords(t, e, n) ==
    With(RunEnd(t, e, IsSpace), LAMBDA w :
    With(IF w > e THEN CapWordEnd(t, w) ELSE 0, LAMBDA e2 :
        IF n = 0 \/ e2 = 0 THEN e ELSE MoreCapWords(t, e2, n - 1)))

\* regex \b between positions i-1 and i
WordBoundary(t, i) == IsWord(CharAt(t, i - 1)) # IsWord(CharAt(t, i))

\* r'\b<kw>\s+([A-Z][a-z]+(?:\s+[A-Z][a-z]+)+)' matched at i: group 1, "" if no match
NameAfterGroup(t, i, kw) ==
    With(RunEnd(t, i + Len(kw), IsSpace), LAMBDA w :
    With(CapWordEnd(t, w), LAMBDA e1 :
    With(IF e1 = 0 THEN 0 ELSE MoreCapWords(t, e1, Len(t)), LAMBDA e :
        IF WordBoundary(t, i) /\ MatchAt(t, i, kw) /\ w > i + Len(kw) /\ e1 # 0 /\ e > e1
        THEN SubSeq(t, w, e - 1)
        ELSE "")))

\* r'\b([A-Z][a-z]+\s+[A-Z][a-z]+(?:\s+[A-Z][a-z]+)?)\b' matched at i: group 1,
\* "" if no match; the optional third word is given up when no \b follows it
TwoOrThreeCapsGroup(t, i) ==
    With(CapWordEnd(t, i), LAMBDA e1 :
    With(IF e1 = 0 THEN 0 ELSE RunEnd(t, e1, IsSpace), LAMBDA w :
    With(IF e1 # 0 /\ w > e1 THEN CapWordEnd(t, w) ELSE 0, LAMBDA e2 :
    With(IF e2 = 0 THEN 0 ELSE MoreCapWords(t, e2, 1), LAMBDA e3 :
        IF ~WordBoundary(t, i) \/ e2 = 0 THEN ""
        ELSE IF e3 > e2 /\ WordBoundary(t, e3) THEN SubSeq(t, i, e3 - 1)
        ELSE IF WordBoundary(t, e2) THEN SubSeq(t, i, e2 - 1)
        ELSE ""))))

ExcludedNames ==
    <<"Engineering", "Marketing", "Sales", "Finance", "Human Resources",
      "Operations", "Legal", "Monday", "Tuesday", "Wednesday", "Thursday",
      "Friday", "Saturday", "Sunday", "January", "February", "March",
      "April", "May", "June", "July", "August", "September", "October",
      "November", "December">>

extract_name_from_text(text) ==
    With(Leftmost(text, LAMBDA i : NameAfterGroup(text, i, "for") # ""), LAMBDA p1 :
        IF p1 # 0 THEN NameAfterGroup(text, p1, "for")
        ELSE With(Leftmost(text, LAMBDA i : NameAfterGroup(text, i, "employee") # ""),
                  LAMBDA p2 :
            IF p2 # 0 THEN NameAfterGroup(text, p2, "employee")
            ELSE With(Leftmost(text, LAMBDA i : TwoOrThreeCapsGroup(text, i) # ""),
                      LAMBDA p3 :
                With(TwoOrThreeCapsGroup(text, p3), LAMBDA name :
                    IF /\ p3 # 0
                       /\ \A k \in 1..Len(ExcludedNames) : ~Contains(name, ExcludedNames[k])
                    THEN name
                    ELSE None))))

generate_email_from_name(name) == ReplaceSpaceByDot(StrLower(name)) \o "@company.com"

\* an insertion-ordered keyword table is a sequence of <<keyword, value>>;
\* the loop returns the value of the first keyword that occurs in the text
RECURSIVE FirstKeyword(_, _, _, _)
FirstKeyword(table, text_lower, k, default) ==
    IF k > Len(table) THEN default
    ELSE IF Contains(text_lower, table[k][1]) THEN table[k][2]
    ELSE FirstKeyword(table, text_lower, k + 1, default)

departments ==
    << <<"engineering", "Engineering">>, <<"engineer", "Engineering">>,
       <<"hr", "HR">>, <<"human resources", "HR">>, <<"sales", "Sales">>,
       <<"marketing", "Marketing">>, <<"finance", "Finance">>,
       <<"operations", "Operations">>, <<"it", "IT">>,
       <<"information technology", "IT">>, <<"legal", "Legal">> >>

extract_department(text_lower) == FirstKeyword(departments, text_lower, 1, None)

positions ==
    << <<"engineer", "Software Engineer">>,
       <<"senior engineer", "Senior Software Engineer">>,
       <<"manager", "Manager">>, <<"director", "Director">>,
       <<"analyst", "Analyst">>, <<"designer", "Designer">>,
       <<"developer", "Developer">>, <<"specialist", "Specialist">>,
       <<"coordinator", "Coordinator">>, <<"executive", "Executive">>,
       <<"lead", "Team Lead">> >>

extract_position(text_lower) == FirstKeyword(positions, text_lower, 1, "New Hire")

manager_map ==
    << <<"Engineering", "MGR001">>, <<"HR", "MGR002">>, <<"Sales", "MGR003">>,
       <<"Marketing", "MGR004">>, <<"Finance", "MGR005">>,
       <<"Operations", "MGR006">>, <<"IT", "MGR007">>, <<"Legal", "MGR008">> >>

get_manager_for_department(department) ==
    LET hits == {k \in 1..Len(manager_map) : manager_map[k][1] = department}
    IN IF hits = {} THEN "MGR001" ELSE manager_map[CHOOSE k \in hits : TRUE][2]

\* get_next_monday().isoformat(): a timestamp fixed by the clock, which no
\* branch of the program inspects
NextMondayIso == "<next-monday>T<now>"

IsDateSep(c) == c = "-" \/ c = "/"

\* r'(\d{4})[-/](\d{1,2})[-/](\d{1,2})' matched at i: length of the month group,
\* 0 if no match
DateMonthLen(t, i) ==
    IF ~(AllInClass(t, i, 4, IsDigit) /\ IsDateSep(CharAt(t, i + 4)) /\ IsDigit(CharAt(t, i + 5)))
    THEN 0
    ELSE IF IsDigit(CharAt(t, i + 6)) /\ IsDateSep(CharAt(t, i + 7)) /\ IsDigit(CharAt(t, i + 8))
    THEN 2
    ELSE IF IsDateSep(CharAt(t, i + 6)) /\ IsDigit(CharAt(t, i + 7))
    THEN 1
    ELSE 0

months ==
    <<"january", "february", "march", "april", "may", "june", "july",
      "august", "september", "october", "november", "december">>

\* rf'{month_name}\s+(\d{1,2})' matched at i: group 1, "" if no match
MonthDayGroup(t, i, month_name) ==
    LET j == i + Len(month_name)
        w == RunEnd(t, j, IsSpace)
    IN IF MatchAt(t, i, month_name) /\ w > j /\ IsDigit(CharAt(t, w))
       THEN (IF IsDigit(CharAt(t, w + 1)) THEN SubSeq(t, w, w + 1) ELSE SubSeq(t, w, w))
       ELSE ""

\* r'(20\d{2})' matched at i
YearAt(t, i) == MatchAt(t, i, "20") /\ AllInClass(t, i + 2, 2, IsDigit)

\* the loop over the month names of extract_date, from month number k on
RECURSIVE MonthLoop(_, _)
MonthLoop(t, k) ==
    IF k > Len(months) THEN NextMondayIso
    ELSE With(Leftmost(t, LAMBDA i : MonthDayGroup(t, i, months[k]) # ""), LAMBDA d :
         With(Leftmost(t, LAMBDA i : YearAt(t, i)), LAMBDA y :
            IF Contains(t, months[k]) /\ d # 0
            THEN (IF y # 0 THEN SubSeq(t, y, y + 3) ELSE "2025") \o "-"
                 \o (IF k < 10 THEN "0" \o SubSeq(DigitChars, k + 1, k + 1)
                     ELSE "1" \o SubSeq(DigitChars, k - 9, k - 9)) \o "-"
                 \o ZFill2(MonthDayGroup(t, d, months[k])) \o "T00:00:00"
            ELSE MonthLoop(t, k + 1)))

extract_date(text_lower) ==
    With(Leftmost(text_lower, LAMBDA i : DateMonthLen(text_lower, i) # 0), LAMBDA p :
    With(DateMonthLen(text_lower, p), LAMBDA m :
    With(p + 5 + m + 1, LAMBDA dpos :
        IF p # 0
        THEN SubSeq(text_lower, p, p + 3) \o "-"
             \o ZFill2(SubSeq(text_lower, p + 5, p + 4 + m)) \o "-"
             \o ZFill2(SubSeq(text_lower, dpos,
                              IF IsDigit(CharAt(text_lower, dpos + 1))
                              THEN dpos + 1 ELSE dpos))
             \o "T00:00:00"
        ELSE MonthLoop(text_lower, 1))))

task_patterns ==
    << <<"complete ", "">>, <<"mark ", " as complete">>, <<"mark ", " complete">>,
       <<"finish ", "">>, <<"done with ", "">>, <<"completed ", "">> >>

terminators == <<" for ", " by ", " on ", ".", "!", "?">>

task_keywords ==
    <<"training", "security", "workstation", "equipment", "handbook",
      "paperwork", "meeting", "environment", "git", "code", "review">>

\* the candidate task name that pattern k of extract_task_name cuts out of the
\* text, "" when the pattern's prefix does not occur
TaskNameByPattern(text, k) ==
    With(StrLower(text), LAMBDA text_lower :
    With(Find(text_lower, task_patterns[k][1], 1) + Len(task_patterns[k][1]),
         LAMBDA start :
    With(IF task_patterns[k][2] # "" THEN Find(text_lower, task_patterns[k][2], start)
         ELSE 0, LAMBDA sfx :
    With(({Find(text_lower, terminators[n], start) : n \in 1..Len(terminators)} \ {0})
            \cup {Len(text_lower) + 1}, LAMBDA ends :
        IF start = Len(task_patterns[k][1]) THEN ""
        ELSE StrStrip(SubSeq(text, start,
                             (IF sfx # 0 THEN sfx
                              ELSE CHOOSE e \in ends : \A f \in ends : e <= f) - 1))))))

RECURSIVE TaskPatternLoop(_, _)
TaskPatternLoop(text, k) ==
    IF k > Len(task_patterns) THEN None
    ELSE With(TaskNameByPattern(text, k), LAMBDA task_name :
            IF Len(task_name) > 3 THEN task_name ELSE TaskPatternLoop(text, k + 1))

extract_task_name(text) ==
    With(TaskPatternLoop(text, 1), LAMBDA by_pattern :
        IF by_pattern # None THEN by_pattern
        ELSE With({k \in 1..Len(task_keywords) :
                      Contains(StrLower(text), task_keywords[k])}, LAMBDA hits :
            IF hits # {} THEN task_keywords[CHOOSE k \in hits : \A j \in hits : k <= j]
            ELSE None))

\* ------------------------------------------------------------------------
\* main.py: parse_input
\* ------------------------------------------------------------------------

StructuredKeys == {"name", "email", "employee_id", "task_id", "task_name"}

\* the natural-language branch of parse_input: the field map built from the text
ParseText(text) ==
    With(StrLower(text), LAMBDA text_lower :
    With(extract_name_from_text(text), LAMBDA name :
    With(extract_department(text_lower), LAMBDA department :
    With(IF Truthy(name)
         THEN Put(Put(EmptyDict, "name", name), "email", generate_email_from_name(name))
         ELSE EmptyDict, LAMBDA r1 :
    With(IF Truthy(department) THEN Put(r1, "department", department) ELSE r1, LAMBDA r2 :
    With(extract_position(text_lower), LAMBDA position :
    With(IF Truthy(position) THEN Put(r2, "position", position) ELSE r2, LAMBDA r3 :
    With(IF Contains(text_lower, "joining") \/ Contains(text_lower, "start")
         THEN Put(r3, "joining_date", extract_date(text_lower))
         ELSE IF Truthy(name) THEN Put(r3, "joining_date", NextMondayIso)
         ELSE r3, LAMBDA r4 :
    With(IF Truthy(department)
         THEN Put(r4, "manager_id", get_manager_for_department(department))
         ELSE r4, LAMBDA r5 :
    With(extract_employee_id(text_lower), LAMBDA employee_id :
    With(IF Truthy(employee_id) THEN Put(r5, "employee_id", employee_id) ELSE r5,
         LAMBDA r6 :
    With(IF \/ Contains(text_lower, "summary")
            \/ Contains(text_lower, "dashboard")
            \/ Contains(text_lower, "overall")
         THEN Put(r6, "report_type", "summary")
         ELSE IF \/ Contains(text_lower, "issue")
                 \/ Contains(text_lower, "alert")
                 \/ Contains(text_lower, "problem")
         THEN Put(r6, "report_type", "issues")
         ELSE IF Contains(text_lower, "report") THEN Put(r6, "report_type", "employee")
         ELSE r6, LAMBDA r7 :
    With(IF Contains(text_lower, "welcome") THEN Put(r7, "type", "welcome")
         ELSE IF Contains(text_lower, "remind") \/ Contains(text_lower, "reminder")
         THEN Put(r7, "type", "reminder")
         ELSE IF Contains(text_lower, "overdue") THEN Put(r7, "type", "overdue")
         ELSE r7, LAMBDA r8 :
    With(extract_task_id(text_lower), LAMBDA task_id :
        IF Truthy(task_id) THEN Put(r8, "task_id", task_id)
        ELSE With(extract_task_name(text), LAMBDA task_name :
            IF Truthy(task_name) THEN Put(r8, "task_name", task_name) ELSE r8)))))))))))))))

\* an earlier parse_input, still in main.py as dead code after extract_task_id's
\* return: any non-empty structured payload is used as the field map
parse_input_any_extra(text, extra) ==
    IF extra # EmptyDict THEN extra ELSE ParseText(text)

parse_input(text, extra) ==
    IF extra # EmptyDict /\ \E key \in StructuredKeys : key \in DOMAIN extra
    THEN extra
    ELSE ParseText(text)

\* ------------------------------------------------------------------------
\* application/database.py: tables and lookups
\*
\* The store is a record of four tables, each a sequence of rows in insertion
\* order.  Primary keys are uuid4 strings in the program; the model draws the
\* k-th key of a table as a letter followed by two hexadecimal digits.
\* ------------------------------------------------------------------------

HexChars == "0123456789abcdef"

HexDigit(n) == SubSeq(HexChars, n + 1, n + 1)

\* default=lambda: str(uuid.uuid4()): a key no row of the table has yet
NewId(letter, table) ==
    letter \o HexDigit((Len(table) + 1) \div 16) \o HexDigit((Len(table) + 1) % 16)

\* the public methods of class Database
DatabaseMethods ==
    {"get_session", "create_employee", "get_employee", "get_all_employees",
     "update_employee", "create_task", "get_task", "get_tasks_by_employee",
     "get_pending_tasks", "update_task", "create_access_request",
     "get_access_requests", "update_access_request", "create_notification",
     "get_pending_notifications", "update_notification"}

\* the mapped columns of class Employee: the keyword arguments its constructor takes
EmployeeColumns ==
    {"id", "name", "email", "phone", "department", "position", "joining_date",
     "manager_id", "status", "created_at", "updated_at"}

\* nullable=False columns of Employee
EmployeeNotNull == {"name", "email", "department", "joining_date"}

\* index of the first row with the given key, 0 if there is none
RowIndex(table, id) ==
    LET hits == {k \in 1..Len(table) : table[k].id = id}
    IN IF hits = {} THEN 0 ELSE CHOOSE k \in hits : \A j \in hits : k <= j

\* an Optional row is a sequence of at most one row; NoRow is Python's None
NoRow == <<>>

\* Database.get_employee: query(Employee).filter(Employee.id == employee_id).first()
get_employee(db, employee_id) ==
    IF RowIndex(db.employees, employee_id) = 0 THEN NoRow
    ELSE <<db.employees[RowIndex(db.employees, employee_id)]>>

\* rows of a table that satisfy a filter, in table order
SelectRows(table, Keep(_)) ==
    LET RECURSIVE Upto(_)
        Upto(k) == IF k = 0 THEN <<>>
                   ELSE IF Keep(table[k]) THEN Append(Upto(k - 1), table[k])
                   ELSE Upto(k - 1)
    IN Upto(Len(table))

\* [F(row) for row in table]
MapRows(table, F(_)) ==
    LET RECURSIVE Upto(_)
        Upto(k) == IF k = 0 THEN <<>> ELSE Append(Upto(k - 1), F(table[k]))
    IN Upto(Len(table))

get_tasks_by_employee(db, employee_id) ==
    SelectRows(db.tasks, LAMBDA t : t.employee_id = employee_id)

\* Database.get_pending_tasks(employee_id=None)
get_pending_tasks(db, employee_id) ==
    SelectRows(db.tasks, LAMBDA t : t.status = "pending"
                                    /\ (Truthy(employee_id) => t.employee_id = employee_id))

get_access_requests(db, employee_id) ==
    SelectRows(db.access_requests, LAMBDA a : a.employee_id = employee_id)

\* Database.update_task / update_access_request / update_notification:
\* setattr(status) on the row with the key; the table is unchanged if there is none
UpdateStatus(table, id, status) ==
    IF RowIndex(table, id) = 0 THEN table
    ELSE [table EXCEPT ![RowIndex(table, id)].status = status]

\* Database.update_employee(employee_id, email=...): the commit is rejected by the
\* UNIQUE constraint on employees.email when another row holds the address
EmailTaken(db, employee_id, email) ==
    \E k \in 1..Len(db.employees) :
        db.employees[k].id # employee_id /\ db.employees[k].email = email

update_employee_email(db, employee_id, email) ==
    IF RowIndex(db.employees, employee_id) = 0 THEN db
    ELSE [db EXCEPT !.employees[RowIndex(db.employees, employee_id)].email = email]

\* what a call returns: the store after it, the exception it raised (None if it
\* returned), str(exception), and the value returned
Returned(db, value) == [db |-> db, raised |-> None, message |-> "", value |-> value]

Raised(db, type, message) == [db |-> db, raised |-> type, message |-> message, value |-> None]

\* ------------------------------------------------------------------------
\* services/data_collector.py
\* ------------------------------------------------------------------------

\* a datetime object is written "datetime:<isoformat>"; every other value of the
\* model is a str or None, as in a JSON payload
IsDatetime(v) == MatchAt(v, 1, "datetime:")

\* DataCollector.create_employee
create_employee(db, name, personal_email, department, joining_date, manager_id, phone, position) ==
    IF ~Truthy(name) \/ ~Truthy(personal_email) \/ ~Truthy(department)
    THEN Raised(db, "ValueError", "Name, personal email, and department are required")
    ELSE IF ~Contains(personal_email, "@")
    THEN Raised(db, "ValueError", "Invalid email format")
    ELSE IF "get_employee_by_personal_email" \notin DatabaseMethods
    THEN Raised(db, "AttributeError",
                "'Database' object has no attribute 'get_employee_by_personal_email'")
    ELSE IF \E k \in 1..Len(db.employees) :
                Get(db.employees[k], "personal_email") = personal_email
    THEN Raised(db, "ValueError",
                "Employee with personal email " \o personal_email \o " already exists")
    ELSE IF ~IsDatetime(joining_date)
    THEN Raised(db, "ValueError", "joining_date must be a datetime object")
    ELSE IF "personal_email" \notin EmployeeColumns
    THEN Raised(db, "TypeError",
                "'personal_email' is an invalid keyword argument for Employee")
    ELSE \* email=None violates nullable=False on employees.email at commit
         Raised(db, "IntegrityError", "NOT NULL constraint failed: employees.email")

\* parameters of DataCollector.create_employee
CreateEmployeeParams ==
    {"name", "personal_email", "department", "joining_date", "manager_id",
     "phone", "position"}

\* keyword arguments of the calls in handle_create_onboarding and handle_collect_data
CreateEmployeeKeywords ==
    {"name", "email", "department", "joining_date", "manager_id", "phone", "position"}

\* data_collector.create_employee(name=data.get("name"), email=data.get("email"), ...):
\* Python binds the keywords to the parameters before the body runs
call_create_employee(db, data) ==
    IF CreateEmployeeKeywords \ CreateEmployeeParams # {}
    THEN Raised(db, "TypeError",
                "DataCollector.create_employee() got an unexpected keyword argument 'email'")
    ELSE create_employee(db, Get(data, "name"), Get(data, "email"),
                         Get(data, "department"), Get(data, "joining_date"),
                         Get(data, "manager_id"), Get(data, "phone"),
                         Get(data, "position"))

\* ------------------------------------------------------------------------
\* services/task_manager.py
\* ------------------------------------------------------------------------

\* the public methods of class TaskManager
TaskManagerMethods ==
    {"assign_onboarding_tasks", "complete_task", "complete_all_tasks",
     "get_employee_tasks", "get_overdue_tasks"}

\* <<title, category, priority>> of the core tasks, in creation order
core_task_data ==
    << <<"Complete Company Policy Acknowledgment", "policy", 1>>,
       <<"Equipment Checklist - Verify Laptop and Accessories", "equipment", 1>>,
       <<"Setup Workstation and Login Credentials", "equipment", 1>>,
       <<"Complete Information Security Training", "training", 1>>,
       <<"Review Emergency Procedures", "policy", 2>>,
       <<"Schedule 1:1 Meeting with Manager", "meeting", 1>>,
       <<"Complete HR Onboarding Forms", "policy", 1>>,
       <<"Join Company Communication Channels", "communication", 2>> >>

\* dept_tasks_map.get(department, [])
dept_tasks_map(department) ==
    CASE department = "Engineering" ->
           << <<"Setup Development Environment", "technical", 2>>,
              <<"Complete Code Review Training", "training", 2>>,
              <<"Review Architecture Documentation", "technical", 2>> >>
      [] department = "Sales" ->
           << <<"Complete Product Training", "training", 2>>,
              <<"Shadow Sales Calls", "training", 2>>,
              <<"Setup CRM Account", "technical", 2>> >>
      [] department = "Marketing" ->
           << <<"Review Brand Guidelines", "policy", 2>>,
              <<"Setup Marketing Tools", "technical", 2>>,
              <<"Meet Content Team", "meeting", 2>> >>
      [] department = "HR" ->
           << <<"HRIS Training", "training", 2>>,
              <<"Review Hiring Process", "policy", 2>>,
              <<"Complete Compliance Training", "training", 2>> >>
      [] OTHER -> <<>>

\* db.create_task for each entry of a list, in order: the task table after it
RECURSIVE CreateTasks(_, _, _)
CreateTasks(tasks, employee_id, data) ==
    IF data = <<>> THEN tasks
    ELSE CreateTasks(
            Append(tasks, [id |-> NewId("a", tasks), employee_id |-> employee_id,
                           title |-> Head(data)[1], category |-> Head(data)[2],
                           priority |-> Head(data)[3], status |-> "pending"]),
            employee_id, Tail(data))

\* core, department and role-training task data of one assignment, in creation order
AssignedTaskData(employee, department) ==
    core_task_data
    \o (IF Truthy(department) THEN dept_tasks_map(department) ELSE <<>>)
    \o (IF Truthy(employee.position)
        THEN << <<"Complete " \o employee.position \o " Role Training", "training", 2>> >>
        ELSE <<>>)

\* an assign_onboarding_tasks that creates nothing for an employee that
\* already has tasks and returns the tasks it has
assign_onboarding_tasks_idempotent(db, employee_id, department) ==
    With(get_employee(db, employee_id), LAMBDA employee :
        IF employee = NoRow
        THEN Raised(db, "ValueError", "Employee " \o employee_id \o " not found")
        ELSE IF get_tasks_by_employee(db, employee_id) # <<>>
        THEN Returned(db, get_tasks_by_employee(db, employee_id))
        ELSE With(CreateTasks(db.tasks, employee_id,
                              AssignedTaskData(employee[1], department)), LAMBDA after :
            Returned([db EXCEPT !.tasks = after],
                     SubSeq(after, Len(db.tasks) + 1, Len(after)))))

\* TaskManager.assign_onboarding_tasks: returns the list of tasks created
assign_onboarding_tasks(db, employee_id, department) ==
    With(get_employee(db, employee_id), LAMBDA employee :
        IF employee = NoRow
        THEN Raised(db, "ValueError", "Employee " \o employee_id \o " not found")
        ELSE With(CreateTasks(db.tasks, employee_id,
                              AssignedTaskData(employee[1], department)), LAMBDA after :
            Returned([db EXCEPT !.tasks = after],
                     SubSeq(after, Len(db.tasks) + 1, Len(after)))))

\* TaskManager.complete_task
complete_task(db, task_id) ==
    With(RowIndex(db.tasks, task_id), LAMBDA k :
        IF k = 0
        THEN Raised(db, "ValueError", "Task " \o task_id \o " not found")
        ELSE Returned([db EXCEPT !.tasks[k].status = "completed"],
                      [db.tasks[k] EXCEPT !.status = "completed"]))

\* TaskManager.complete_all_tasks: returns the list of updated tasks
complete_all_tasks(db, employee_id) ==
    With(get_pending_tasks(db, employee_id), LAMBDA pending :
    With({pending[k].id : k \in 1..Len(pending)}, LAMBDA ids :
        Returned([db EXCEPT !.tasks =
                     MapRows(db.tasks, LAMBDA t : IF t.id \in ids
                                                  THEN [t EXCEPT !.status = "completed"]
                                                  ELSE t)],
                 MapRows(pending, LAMBDA t : [t EXCEPT !.status = "completed"]))))

\* task_manager.complete_task_by_name(employee_id, task_name), as called by
\* handle_complete_task: attribute lookup on the TaskManager instance
complete_task_by_name(db, employee_id, task_name) ==
    IF "complete_task_by_name" \notin TaskManagerMethods
    THEN Raised(db, "AttributeError",
                "'TaskManager' object has no attribute 'complete_task_by_name'")
    ELSE Raised(db, "ValueError", "No task matching '" \o task_name \o "'")

\* ------------------------------------------------------------------------
\* services/progress_monitor.py and services/reporter.py
\* The human-readable "message" texts and the clock readings (generated_at,
\* due dates, days since joining) of the returned dicts are left out; a
\* behaviour spans less than the shortest due period, so no task is overdue
\* by the clock.
\* ------------------------------------------------------------------------

\* len([x for x in rows if P(x)])
Count(rows, P(_)) == Cardinality({k \in 1..Len(rows) : P(rows[k])})

\* round(num / den) to an integer, ties to even: Python's round and ':.0f'
RoundHalfEven(num, den) ==
    LET q == num \div den
        r == num % den
    IN IF 2 * r < den THEN q
       ELSE IF 2 * r > den THEN q + 1
       ELSE IF q % 2 = 0 THEN q ELSE q + 1

\* a status chain that takes "on_track" above 75 percent only
ProgressStatusAbove75(completed, total, overdue) ==
    IF completed = total THEN "completed"
    ELSE IF overdue > 0 THEN "needs_attention"
    ELSE IF completed * 100 > 75 * total THEN "on_track"
    ELSE IF completed * 100 >= 50 * total THEN "in_progress"
    ELSE IF completed > 0 THEN "started"
    ELSE "not_started"

\* the status chain of get_employee_progress; the percentage tests are exact
\* in integers (completed / total * 100 compared with 100, 75, 50, 0)
ProgressStatus(completed, total, overdue) ==
    IF completed = total THEN "completed"
    ELSE IF overdue > 0 THEN "needs_attention"
    ELSE IF completed * 100 >= 75 * total THEN "on_track"
    ELSE IF completed * 100 >= 50 * total THEN "in_progress"
    ELSE IF completed > 0 THEN "started"
    ELSE "not_started"

\* the dict get_employee_progress returns for a stored employee;
\* completion_percentage is kept in tenths of a percent (round(x, 1))
ProgressOf(db, employee) ==
    With(get_tasks_by_employee(db, employee.id), LAMBDA tasks :
    With(Count(tasks, LAMBDA t : t.status = "completed"), LAMBDA completed :
    With(Count(tasks, LAMBDA t : t.status = "overdue"), LAMBDA overdue :
        IF tasks = <<>>
        THEN [employee_id |-> employee.id, employee_name |-> employee.name,
              total_tasks |-> 0, completed_tasks |-> 0, pending_tasks |-> 0,
              overdue_tasks |-> 0, completion_percentage |-> 0,
              status |-> "no_tasks_assigned"]
        ELSE [employee_id |-> employee.id, employee_name |-> employee.name,
              total_tasks |-> Len(tasks), completed_tasks |-> completed,
              pending_tasks |-> Count(tasks, LAMBDA t : t.status = "pending"),
              overdue_tasks |-> overdue,
              completion_percentage |-> RoundHalfEven(1000 * completed, Len(tasks)),
              status |-> ProgressStatus(completed, Len(tasks), overdue)])))

\* ProgressMonitor.get_employee_progress
get_employee_progress(db, employee_id) ==
    With(get_employee(db, employee_id), LAMBDA employee :
        IF employee = NoRow
        THEN Raised(db, "ValueError", "Employee with ID '" \o employee_id \o "' not found.")
        ELSE Returned(db, ProgressOf(db, employee[1])))

\* ProgressMonitor.initialize_monitoring
initialize_monitoring(db, employee_id) ==
    IF get_employee(db, employee_id) = NoRow
    THEN Raised(db, "ValueError",
                "Cannot initialize monitoring: Employee " \o employee_id \o " not found.")
    ELSE Returned(db, [employee_id |-> employee_id, success |-> TRUE])

\* ProgressMonitor.get_pending_items
get_pending_items(db, employee_id) ==
    With(get_pending_tasks(db, employee_id), LAMBDA pending_tasks :
    With(SelectRows(get_access_requests(db, employee_id),
                    LAMBDA ar : ar.status \in {"pending", "in_progress"}),
         LAMBDA pending_access :
        IF get_employee(db, employee_id) = NoRow
        THEN Raised(db, "ValueError", "Employee with ID '" \o employee_id \o "' not found.")
        ELSE Returned(db,
               [employee_id |-> employee_id,
                pending_tasks |-> MapRows(pending_tasks, LAMBDA t : t.id),
                pending_access_requests |-> MapRows(pending_access, LAMBDA ar : ar.id),
                total_pending |-> Len(pending_tasks) + Len(pending_access)])))

\* ProgressMonitor.get_all_progress: always a dict of three keys
get_all_progress(db) ==
    With(MapRows(db.employees, LAMBDA employee : ProgressOf(db, employee)),
         LAMBDA progress_list :
        [message |-> "<overall progress report>", employees |-> progress_list,
         summary |->
            [total_employees |-> Len(db.employees),
             completed |-> Count(progress_list, LAMBDA p : p.status = "completed"),
             on_track |-> Count(progress_list,
                                LAMBDA p : p.status \in {"on_track", "in_progress", "started"}),
             needs_attention |->
                 Count(progress_list, LAMBDA p : p.status = "needs_attention")]])

\* Reporter._determine_employee_status with no overdue task
determine_employee_status(completed_items, total_items) ==
    IF total_items > 0 /\ completed_items = total_items THEN "completed"
    ELSE IF total_items > 0 /\ completed_items * 100 >= 75 * total_items THEN "on_track"
    ELSE IF total_items > 0 /\ completed_items * 100 >= 50 * total_items THEN "in_progress"
    ELSE "just_started"

\* Reporter.generate_employee_report; completion_percentage in hundredths of a
\* percent (round(x, 2))
generate_employee_report(db, employee_id) ==
    With(get_employee(db, employee_id), LAMBDA employee :
    With(get_tasks_by_employee(db, employee_id), LAMBDA tasks :
    With(get_access_requests(db, employee_id), LAMBDA access_requests :
    With(Count(tasks, LAMBDA t : t.status = "completed"), LAMBDA completed_tasks :
    With(Count(access_requests, LAMBDA a : a.status = "completed"), LAMBDA completed_access :
    With(Count(access_requests, LAMBDA a : a.status = "failed"), LAMBDA failed_access :
    With(Len(tasks) + Len(access_requests), LAMBDA total :
        IF employee = NoRow
        THEN Raised(db, "ValueError", "Employee " \o employee_id \o " not found")
        ELSE Returned(db,
               [employee |-> [id |-> employee[1].id, name |-> employee[1].name,
                              email |-> employee[1].email,
                              department |-> employee[1].department,
                              position |-> employee[1].position],
                progress |->
                  [completion_percentage |->
                       IF total > 0
                       THEN RoundHalfEven(10000 * (completed_tasks + completed_access), total)
                       ELSE 0,
                   status |-> determine_employee_status(completed_tasks + completed_access,
                                                        total),
                   tasks |-> [total |-> Len(tasks), completed |-> completed_tasks,
                              pending |-> Count(tasks, LAMBDA t : t.status = "pending"),
                              overdue |-> 0],
                   access_requests |->
                       [total |-> Len(access_requests), completed |-> completed_access,
                        pending |-> Count(access_requests, LAMBDA a : a.status = "pending"),
                        failed |-> failed_access]],
                issues |-> [has_overdue_tasks |-> FALSE,
                            has_failed_access |-> failed_access > 0]]))))))))

\* Reporter.generate_summary_report
generate_summary_report(db) ==
    With(Count(db.employees,
               LAMBDA employee :
                   With(get_tasks_by_employee(db, employee.id), LAMBDA tasks :
                   With(get_access_requests(db, employee.id), LAMBDA access_requests :
                       /\ Len(tasks) + Len(access_requests) > 0
                       /\ Count(tasks, LAMBDA t : t.status = "completed")
                            + Count(access_requests, LAMBDA a : a.status = "completed")
                          = Len(tasks) + Len(access_requests)))),
         LAMBDA completed_count :
        [summary |-> [total_employees |-> Len(db.employees),
                      completed |-> completed_count,
                      on_track |-> Len(db.employees) - completed_count,
                      at_risk |-> 0,
                      total_overdue_tasks |-> 0,
                      total_pending_access_requests |->
                          Count(db.access_requests,
                                LAMBDA a : a.status = "pending"
                                           /\ RowIndex(db.employees, a.employee_id) # 0)]])

\* Reporter.get_issue_alerts: one "failed_access" alert per employee that has a
\* failed access request (the other alerts need three days to pass)
get_issue_alerts(db) ==
    MapRows(SelectRows(db.employees,
                       LAMBDA employee :
                           \E k \in 1..Len(db.access_requests) :
                               /\ db.access_requests[k].employee_id = employee.id
                               /\ db.access_requests[k].status = "failed"),
            LAMBDA employee : [type |-> "critical", category |-> "failed_access",
                               employee_id |-> employee.id])

\* ------------------------------------------------------------------------
\* services/access_manager.py
\* ------------------------------------------------------------------------

\* name.strip().split(): the words of a name
RECURSIVE SplitWords(_)
SplitWords(s) ==
    With(StrStrip(s), LAMBDA t :
    With(Find(t, " ", 1), LAMBDA sp :
        IF t = "" THEN <<>>
        ELSE IF sp = 0 THEN <<t>>
        ELSE <<SubSeq(t, 1, sp - 1)>> \o SplitWords(SubSeq(t, sp + 1, Len(t)))))

\* the fallback address of generate_real_email
fallback_email(name) ==
    With(SplitWords(name), LAMBDA parts :
        StrLower(parts[1]) \o "."
        \o (IF Len(parts) > 1 THEN StrLower(parts[Len(parts)]) ELSE "employee")
        \o "@fallback.local")

\* the names of the employees in the stores and the requests, and their
\* fallback addresses, computed once
StoredNames == {"John Smith", "Alice Johnson"}

FallbackEmails == {<<name, fallback_email(name)>> : name \in StoredNames}

FallbackEmail(name) ==
    IF name \in StoredNames THEN (CHOOSE p \in FallbackEmails : p[1] = name)[2]
    ELSE fallback_email(name)

\* the address of the inbox the provider creates: one no other inbox has,
\* written here from the key of the access request it serves
inbox_email(request_id) == "inbox-" \o request_id \o "@mailslurp.net"

\* db.create_access_request(AccessRequest(employee_id, access_type, PENDING))
create_access_request(db, employee_id, access_type) ==
    [db EXCEPT !.access_requests =
        Append(@, [id |-> NewId("b", db.access_requests), employee_id |-> employee_id,
                   access_type |-> access_type, status |-> "pending"])]

\* a request_email_account that asks the provider again after a failure and
\* is served the second time
request_email_account_retrying(db, employee_id, provider_ok) ==
    With(NewId("b", db.access_requests), LAMBDA request_id :
        [db |-> [db EXCEPT !.access_requests =
                    Append(@, [id |-> request_id, employee_id |-> employee_id,
                               access_type |-> "email", status |-> "completed"])],
         email_address |-> inbox_email(request_id),
         is_fallback |-> FALSE,
         provider_calls |-> IF provider_ok THEN 1 ELSE 2])

\* AccessManager.request_email_account: the request is created PENDING and is
\* COMPLETED whether the provider made an inbox or the fallback address is used;
\* provider_calls counts the calls of _create_mailslurp_inbox (one, made by
\* generate_real_email)
request_email_account(db, employee_id, provider_ok) ==
    With(NewId("b", db.access_requests), LAMBDA request_id :
        [db |-> [db EXCEPT !.access_requests =
                    Append(@, [id |-> request_id, employee_id |-> employee_id,
                               access_type |-> "email", status |-> "completed"])],
         email_address |-> IF provider_ok THEN inbox_email(request_id)
                           ELSE FallbackEmail(get_employee(db, employee_id)[1].name),
         is_fallback |-> ~provider_ok,
         provider_calls |-> 1])

\* AccessManager.get_access_status
get_access_status(db, employee_id) ==
    With(get_employee(db, employee_id), LAMBDA employee :
    With(get_access_requests(db, employee_id), LAMBDA requests :
        IF employee = NoRow
        THEN Raised(db, "ValueError", "Employee with ID '" \o employee_id \o "' not found.")
        ELSE Returned(db,
               [employee_id |-> employee_id, employee_email |-> employee[1].email,
                total_requests |-> Len(requests),
                completed |-> Count(requests, LAMBDA r : r.status = "completed"),
                pending |-> Count(requests, LAMBDA r : r.status = "pending"),
                failed |-> Count(requests, LAMBDA r : r.status = "failed"),
                requests |-> requests])))

\* ------------------------------------------------------------------------
\* services/notification_service.py
\* ------------------------------------------------------------------------

\* os.getenv("EMAIL_TEST_MODE", "true").lower() == "true"
test_mode == TRUE

\* create_notification(status="pending") followed by update_notification: "sent"
\* in test mode and when the SMTP hand-over works, "failed" otherwise
Notify(db, employee_id, type, smtp_ok) ==
    [db EXCEPT !.notifications =
        Append(@, [id |-> NewId("c", db.notifications), employee_id |-> employee_id,
                   type |-> type,
                   status |-> IF test_mode \/ smtp_ok THEN "sent" ELSE "failed"])]

\* NotificationService.send_welcome_email
send_welcome_email(db, employee_id, smtp_ok) ==
    IF get_employee(db, employee_id) = NoRow
    THEN Raised(db, "ValueError",
                "Cannot send welcome email: Employee " \o employee_id \o " not found.")
    ELSE IF test_mode \/ smtp_ok
    THEN Returned(Notify(db, employee_id, "welcome", smtp_ok), "success")
    ELSE Raised(Notify(db, employee_id, "welcome", smtp_ok), "Exception",
                "Failed to send welcome email")

\* NotificationService.send_task_reminder: no notification when nothing is pending
send_task_reminder(db, employee_id, smtp_ok) ==
    IF get_employee(db, employee_id) = NoRow
    THEN Raised(db, "ValueError",
                "Cannot send reminder: Employee " \o employee_id \o " not found.")
    ELSE IF get_pending_tasks(db, employee_id) = <<>>
    THEN Returned(db, "no_pending_tasks")
    ELSE IF test_mode \/ smtp_ok
    THEN Returned(Notify(db, employee_id, "task_reminder", smtp_ok), "success")
    ELSE Raised(Notify(db, employee_id, "task_reminder", smtp_ok), "Exception",
                "Failed to send reminder")

\* NotificationService.send_bulk_reminders: one reminder per employee that has a
\* pending task, in employee order; a failed send is caught and counted
RECURSIVE BulkLoop(_, _, _)
BulkLoop(db, k, smtp_ok) ==
    IF k > Len(db.employees) THEN db
    ELSE IF get_pending_tasks(db, db.employees[k].id) # <<>>
    THEN BulkLoop(send_task_reminder(db, db.employees[k].id, smtp_ok).db, k + 1, smtp_ok)
    ELSE BulkLoop(db, k + 1, smtp_ok)

send_bulk_reminders(db, smtp_ok) == Returned(BulkLoop(db, 1, smtp_ok), "success")

\* ------------------------------------------------------------------------
\* main.py: intent handlers.  A handler yields the store after it, the
\* exception it raised (None if it returned), its OutputData and the calls it
\* added to the request's BackgroundTasks before returning or raising.
\* ------------------------------------------------------------------------

\* OutputData(result, confidence, details); confidence in hundredths
OutputData(result, confidence, details) ==
    [result |-> result, confidence |-> confidence, details |-> details]

\* json.dumps(value, indent=2): the document, kept as the value it encodes
JsonDumps(value) == [json |-> value]

Done(db, output, scheduled) ==
    [db |-> db, raised |-> None, message |-> "", output |-> <<output>>,
     scheduled |-> scheduled]

Failed(db, type, message, scheduled) ==
    [db |-> db, raised |-> type, message |-> message, output |-> <<>>,
     scheduled |-> scheduled]

\* background_tasks.add_task(func, employee_id)
BackgroundCall(func, employee_id) == [func |-> func, employee_id |-> employee_id]

handle_create_onboarding(db, data) ==
    With(call_create_employee(db, data), LAMBDA created :
        IF created.raised # None
        THEN Failed(created.db, created.raised, created.message, <<>>)
        ELSE
    With(created.value, LAMBDA employee :
    With(<<BackgroundCall("setup_all_access", employee.id)>>, LAMBDA access_call :
    With(assign_onboarding_tasks(created.db, employee.id, employee.department),
         LAMBDA assigned :
        IF assigned.raised # None
        THEN Failed(assigned.db, assigned.raised, assigned.message, access_call)
        ELSE
    With(initialize_monitoring(assigned.db, employee.id), LAMBDA monitoring :
        IF monitoring.raised # None
        THEN Failed(assigned.db, monitoring.raised, monitoring.message, access_call)
        ELSE
    With(Append(access_call, BackgroundCall("send_welcome_email", employee.id)),
         LAMBDA both_calls :
    With(generate_employee_report(assigned.db, employee.id), LAMBDA report :
        IF report.raised # None
        THEN Failed(assigned.db, report.raised, report.message, both_calls)
        ELSE Done(assigned.db,
                  OutputData("Onboarding created successfully for " \o employee.name
                               \o " (ID: " \o employee.id \o ")",
                             100,
                             JsonDumps([employee_id |-> employee.id,
                                        name |-> employee.name,
                                        email |-> employee.email,
                                        department |-> employee.department,
                                        tasks_assigned |-> Len(assigned.value),
                                        access_requests_initiated |-> 3,
                                        status |-> "initiated",
                                        report |-> report.value])),
                  both_calls))))))))

\* a handle_setup_access that schedules the setup whatever employee_id is
handle_setup_access_unguarded(db, data) ==
    Done(db,
         OutputData("Access setup initiated for employee " \o Get(data, "employee_id"), 95,
                    "Requests sent for: email account, system credentials, workspace permissions"),
         <<BackgroundCall("setup_all_access", Get(data, "employee_id"))>>)

handle_collect_data(db, data) ==
    With(call_create_employee(db, data), LAMBDA created :
        IF created.raised # None
        THEN Failed(created.db, created.raised, created.message, <<>>)
        ELSE Done(created.db,
                  OutputData("Employee data collected for " \o created.value.name, 100,
                             "Employee ID: " \o created.value.id \o ", Department: "
                               \o created.value.department),
                  <<>>))

handle_setup_access(db, data) ==
    With(Get(data, "employee_id"), LAMBDA employee_id :
        IF ~Truthy(employee_id)
        THEN Failed(db, "ValueError", "employee_id is required", <<>>)
        ELSE Done(db,
                  OutputData("Access setup initiated for employee " \o employee_id, 95,
                             "Requests sent for: email account, system credentials, workspace permissions"),
                  <<BackgroundCall("setup_all_access", employee_id)>>))

\* ', '.join(titles)
RECURSIVE JoinTitles(_)
JoinTitles(tasks) ==
    IF tasks = <<>> THEN ""
    ELSE IF Len(tasks) = 1 THEN tasks[1].title
    ELSE tasks[1].title \o ", " \o JoinTitles(Tail(tasks))

\* a handle_check_progress that answers an unknown employee with empty progress
handle_check_progress_lenient(db, data) ==
    With(Get(data, "employee_id"), LAMBDA employee_id :
        IF ~Truthy(employee_id)
        THEN Done(db,
                  OutputData("Progress retrieved for "
                               \o ToString(Cardinality(DOMAIN get_all_progress(db)))
                               \o " employees",
                             100, JsonDumps(get_all_progress(db))),
                  <<>>)
        ELSE IF get_employee(db, employee_id) = NoRow
        THEN Done(db, OutputData("Progress: 0/0 tasks completed", 100,
                                 JsonDumps([progress |-> <<>>, pending_items |-> <<>>])),
                  <<>>)
        ELSE Done(db,
                  OutputData("Progress: "
                               \o ToString(get_employee_progress(db, employee_id).value.completed_tasks)
                               \o "/"
                               \o ToString(get_employee_progress(db, employee_id).value.total_tasks)
                               \o " tasks completed",
                             100,
                             JsonDumps([progress |-> get_employee_progress(db, employee_id).value,
                                        pending_items |->
                                            get_pending_items(db, employee_id).value])),
                  <<>>))

handle_assign_tasks(db, data) ==
    With(Get(data, "employee_id"), LAMBDA employee_id :
        IF ~Truthy(employee_id)
        THEN Failed(db, "ValueError", "employee_id is required", <<>>)
        ELSE With(assign_onboarding_tasks(db, employee_id, Get(data, "department")),
                  LAMBDA assigned :
            IF assigned.raised # None
            THEN Failed(assigned.db, assigned.raised, assigned.message, <<>>)
            ELSE Done(assigned.db,
                      OutputData("Assigned " \o ToString(Len(assigned.value))
                                   \o " onboarding tasks",
                                 100, "Tasks: " \o JoinTitles(assigned.value)),
                      <<>>)))

handle_check_progress(db, data) ==
    With(Get(data, "employee_id"), LAMBDA employee_id :
        IF ~Truthy(employee_id)
        THEN \* len(all_progress) is the number of keys of the dict returned
             With(get_all_progress(db), LAMBDA all_progress :
                Done(db,
                     OutputData("Progress retrieved for "
                                  \o ToString(Cardinality(DOMAIN all_progress))
                                  \o " employees",
                                100, JsonDumps(all_progress)),
                     <<>>))
        ELSE With(get_employee_progress(db, employee_id), LAMBDA progress :
            IF progress.raised # None
            THEN Failed(db, progress.raised, progress.message, <<>>)
            ELSE With(get_pending_items(db, employee_id), LAMBDA pending_items :
                IF pending_items.raised # None
                THEN Failed(db, pending_items.raised, pending_items.message, <<>>)
                ELSE Done(db,
                          OutputData("Progress: "
                                       \o ToString(progress.value.completed_tasks) \o "/"
                                       \o ToString(progress.value.total_tasks)
                                       \o " tasks completed",
                                     100,
                                     JsonDumps([progress |-> progress.value,
                                                pending_items |-> pending_items.value])),
                          <<>>))))

handle_send_notifications(db, data) ==
    With(Get(data, "employee_id"), LAMBDA employee_id :
        IF ~Truthy(employee_id)
        THEN Done(db,
                  OutputData("Bulk reminder notifications scheduled", 100,
                             "Reminders will be sent to all employees with pending tasks"),
                  <<BackgroundCall("send_bulk_reminders", None)>>)
        ELSE IF GetOr(data, "type", "reminder") = "welcome"
        THEN Done(db,
                  OutputData("Welcome email scheduled", 100,
                             "Notification will be sent to employee " \o employee_id),
                  <<BackgroundCall("send_welcome_email", employee_id)>>)
        ELSE Done(db,
                  OutputData("Task reminder scheduled", 100,
                             "Notification will be sent to employee " \o employee_id),
                  <<BackgroundCall("send_task_reminder", employee_id)>>))

handle_generate_report(db, data) ==
    With(GetOr(data, "report_type", "employee"), LAMBDA report_type :
    With(Get(data, "employee_id"), LAMBDA employee_id :
        IF report_type = "summary"
        THEN Done(db, OutputData("Summary report generated", 100,
                                 JsonDumps(generate_summary_report(db))), <<>>)
        ELSE IF report_type = "issues"
        THEN With(get_issue_alerts(db), LAMBDA issues :
                Done(db,
                     OutputData("Found " \o ToString(Len(issues))
                                  \o " issues requiring attention",
                                100, JsonDumps(issues)),
                     <<>>))
        ELSE IF ~Truthy(employee_id)
        THEN Failed(db, "ValueError", "employee_id is required for employee report", <<>>)
        ELSE With(generate_employee_report(db, employee_id), LAMBDA report :
            IF report.raised # None
            THEN Failed(db, report.raised, report.message, <<>>)
            ELSE Done(db, OutputData("Employee report generated for " \o employee_id, 100,
                                     JsonDumps(report.value)), <<>>))))

handle_get_status(db, data) ==
    With(Get(data, "employee_id"), LAMBDA employee_id :
        IF ~Truthy(employee_id)
        THEN Failed(db, "ValueError", "employee_id is required", <<>>)
        ELSE With(get_employee(db, employee_id), LAMBDA employee :
            IF employee = NoRow
            THEN Failed(db, "ValueError", "Employee " \o employee_id \o " not found", <<>>)
            ELSE With(get_employee_progress(db, employee_id).value, LAMBDA progress :
                Done(db,
                     OutputData("Employee " \o employee[1].name \o ": "
                                  \o ToString(RoundHalfEven(progress.completion_percentage, 10))
                                  \o "% complete",
                                100,
                                JsonDumps([employee |-> employee[1],
                                           progress |-> progress,
                                           access_status |->
                                               get_access_status(db, employee_id).value])),
                     <<>>))))

\* the loop of handle_complete_task over get_all_employees(): only a ValueError
\* moves on to the next employee
RECURSIVE CompleteByNameLoop(_, _, _)
CompleteByNameLoop(db, k, task_name) ==
    IF k > Len(db.employees)
    THEN Failed(db, "ValueError",
                "No employee found with task matching '" \o task_name \o "'", <<>>)
    ELSE With(complete_task_by_name(db, db.employees[k].id, task_name), LAMBDA completed :
        IF completed.raised = "ValueError"
        THEN CompleteByNameLoop(completed.db, k + 1, task_name)
        ELSE IF completed.raised # None
        THEN Failed(completed.db, completed.raised, completed.message, <<>>)
        ELSE Done(completed.db,
                  OutputData("Task '" \o completed.value.title
                               \o "' marked as completed for " \o db.employees[k].name,
                             80, "Employee: " \o db.employees[k].name),
                  <<>>))

handle_complete_task(db, data) ==
    With(Get(data, "task_id"), LAMBDA task_id :
    With(Get(data, "task_name"), LAMBDA task_name :
    With(Get(data, "employee_id"), LAMBDA employee_id :
        IF Truthy(task_id)
        THEN With(complete_task(db, task_id), LAMBDA by_id :
                IF by_id.raised # None
                THEN Failed(by_id.db, by_id.raised, by_id.message, <<>>)
                ELSE Done(by_id.db,
                          OutputData("Task '" \o by_id.value.title
                                       \o "' marked as completed",
                                     100, "Completed at: <now>"),
                          <<>>))
        ELSE IF Truthy(task_name) /\ Truthy(employee_id)
        THEN With(complete_task_by_name(db, employee_id, task_name), LAMBDA by_name :
                IF by_name.raised # None
                THEN Failed(by_name.db, by_name.raised, by_name.message, <<>>)
                ELSE Done(by_name.db,
                          OutputData("Task '" \o by_name.value.title
                                       \o "' marked as completed for employee",
                                     90, "Completed at: <now>"),
                          <<>>))
        ELSE IF Truthy(task_name)
        THEN CompleteByNameLoop(db, 1, task_name)
        ELSE IF Truthy(employee_id)
        THEN With(complete_all_tasks(db, employee_id), LAMBDA completed :
                Done(completed.db,
                     OutputData("Completed " \o ToString(Len(completed.value)) \o " tasks",
                                100, "All tasks completed for employee " \o employee_id),
                     <<>>))
        ELSE Failed(db, "ValueError",
                    "Need task_id, task_name (with optional employee_id), or employee_id",
                    <<>>))))

\* ------------------------------------------------------------------------
\* main.py: execute_intent
\* ------------------------------------------------------------------------

\* the if/elif chain of execute_intent, as a table from intent to handler
IntentHandlers ==
    [intent \in {"onboarding.create"} |-> "handle_create_onboarding"]
    @@ [intent \in {"onboarding.collect_data"} |-> "handle_collect_data"]
    @@ [intent \in {"onboarding.setup_access"} |-> "handle_setup_access"]
    @@ [intent \in {"onboarding.assign_tasks"} |-> "handle_assign_tasks"]
    @@ [intent \in {"onboarding.check_progress"} |-> "handle_check_progress"]
    @@ [intent \in {"onboarding.send_notifications"} |-> "handle_send_notifications"]
    @@ [intent \in {"onboarding.generate_report"} |-> "handle_generate_report"]
    @@ [intent \in {"onboarding.get_status"} |-> "handle_get_status"]
    @@ [intent \in {"onboarding.complete_task"} |-> "handle_complete_task"]

SupportedIntents == DOMAIN IntentHandlers

\* a routing whose final else falls through to handle_get_status
RouteWithDefault(intent) ==
    IF intent \in SupportedIntents THEN IntentHandlers[intent] ELSE "handle_get_status"

\* the handler an intent selects; "none" is the final else
Route(intent) ==
    IF intent \in SupportedIntents THEN IntentHandlers[intent] ELSE "none"

\* await handle_...(input_data, ...)
CallHandler(handler, db, data) ==
    CASE handler = "handle_create_onboarding" -> handle_create_onboarding(db, data)
      [] handler = "handle_collect_data" -> handle_collect_data(db, data)
      [] handler = "handle_setup_access" -> handle_setup_access(db, data)
      [] handler = "handle_assign_tasks" -> handle_assign_tasks(db, data)
      [] handler = "handle_check_progress" -> handle_check_progress(db, data)
      [] handler = "handle_send_notifications" -> handle_send_notifications(db, data)
      [] handler = "handle_generate_report" -> handle_generate_report(db, data)
      [] handler = "handle_get_status" -> handle_get_status(db, data)
      [] handler = "handle_complete_task" -> handle_complete_task(db, data)

\* an error envelope that names this service instead of echoing the caller
ErrorResponseUnechoed(request, type, message) ==
    [request_id |-> request.request_id, agent_name |-> "onboarding_agent",
     status |-> "error", output |-> <<>>,
     error |-> <<[type |-> type, message |-> message]>>]

\* WorkerResponse(status="error", output=None, error=ErrorData(type, message))
ErrorResponse(request, type, message) ==
    [request_id |-> request.request_id, agent_name |-> request.agent_name,
     status |-> "error", output |-> <<>>,
     error |-> <<[type |-> type, message |-> message]>>]

\* WorkerResponse(status="success", output=result, error=None)
SuccessResponse(request, result) ==
    [request_id |-> request.request_id, agent_name |-> request.agent_name,
     status |-> "success", output |-> <<result>>, error |-> <<>>]

\* ------------------------------------------------------------------------
\* AccessManager.setup_all_access, cut at its two asyncio.sleep calls
\* ------------------------------------------------------------------------

\* setup_all_access without its existence check
setup_all_access_begin_unchecked(db, employee_id, provider_ok) ==
    With([db EXCEPT !.access_requests =
             Append(@, [id |-> NewId("b", db.access_requests), employee_id |-> employee_id,
                        access_type |-> "email", status |-> "completed"])], LAMBDA mailed :
        Returned(create_access_request(mailed, employee_id, "system_credentials"),
                 NewId("b", mailed.access_requests)))

\* a setup_all_access that marks the email request FAILED when the employee
\* record rejects the address
setup_all_access_begin_compensating(db, employee_id, provider_ok) ==
    IF get_employee(db, employee_id) = NoRow
    THEN Raised(db, "ValueError",
                "Cannot setup access: Employee " \o employee_id
                  \o " not found in the system.")
    ELSE With(request_email_account(db, employee_id, provider_ok), LAMBDA mail :
        IF EmailTaken(mail.db, employee_id, mail.email_address)
        THEN Raised([mail.db EXCEPT !.access_requests =
                        UpdateStatus(@, NewId("b", db.access_requests), "failed")],
                    "IntegrityError", "UNIQUE constraint failed: employees.email")
        ELSE With(update_employee_email(mail.db, employee_id, mail.email_address),
                  LAMBDA updated :
            Returned(create_access_request(updated, employee_id, "system_credentials"),
                     NewId("b", updated.access_requests))))

\* from the call to the sleep in request_system_credentials: existence check,
\* email account, update of the employee's email, SYSTEM_CREDENTIALS request
\* created PENDING; returns the key of that request
setup_all_access_begin(db, employee_id, provider_ok) ==
    IF get_employee(db, employee_id) = NoRow
    THEN Raised(db, "ValueError",
                "Cannot setup access: Employee " \o employee_id
                  \o " not found in the system.")
    ELSE With(request_email_account(db, employee_id, provider_ok), LAMBDA mail :
        IF EmailTaken(mail.db, employee_id, mail.email_address)
        THEN Raised(mail.db, "IntegrityError", "UNIQUE constraint failed: employees.email")
        ELSE With(update_employee_email(mail.db, employee_id, mail.email_address),
                  LAMBDA updated :
            Returned(create_access_request(updated, employee_id, "system_credentials"),
                     NewId("b", updated.access_requests))))

\* a second segment that creates the WORKSPACE request without first marking
\* the credentials request COMPLETED
setup_all_access_system_done_early(db, employee_id, request_id) ==
    Returned(create_access_request(db, employee_id, "workspace"),
             NewId("b", db.access_requests))

\* from that sleep to the sleep in request_workspace_access: the credentials
\* request is COMPLETED and the WORKSPACE request is created PENDING
setup_all_access_system_done(db, employee_id, request_id) ==
    With([db EXCEPT !.access_requests = UpdateStatus(@, request_id, "completed")],
         LAMBDA completed :
        Returned(create_access_request(completed, employee_id, "workspace"),
                 NewId("b", completed.access_requests)))

\* from that sleep to the return
setup_all_access_workspace_done(db, request_id) ==
    Returned([db EXCEPT !.access_requests = UpdateStatus(@, request_id, "completed")],
             "success")

\* ------------------------------------------------------------------------
\* The service as a state machine
\* ------------------------------------------------------------------------

VARIABLES
    db,          \* the tables of onboarding.db
    background,  \* per request with calls left: its BackgroundTasks and where it is
    request,     \* the last WorkerRequest received
    input_data,  \* the field map parse_input built for it
    handler,     \* the handler execute_intent called for it, "none" if none
    response,    \* the WorkerResponse returned for it
    served,      \* number of requests received
    outcome      \* the last direct call of a service method and what it did

vars == <<db, background, request, input_data, handler, response, served, outcome>>

\* number of requests in a behaviour
MaxRequests == 2

WorkerRequest(request_id, agent_name, intent, text, extra) ==
    [request_id |-> request_id, agent_name |-> agent_name, intent |-> intent,
     text |-> text, extra |-> extra]

NoRequest == WorkerRequest("", "", "", "", EmptyDict)

NoResponse ==
    [request_id |-> "", agent_name |-> "", status |-> "", output |-> <<>>, error |-> <<>>]

NoOutcome == [call |-> "", args |-> <<>>, raised |-> None, message |-> "", returned |-> <<>>]

RemoveAt(seq, j) == SubSeq(seq, 1, j - 1) \o SubSeq(seq, j + 1, Len(seq))

\* the head call of a request's BackgroundTasks returned: go on to the next one
Advance(j) ==
    IF Len(background[j].queue) = 1 THEN RemoveAt(background, j)
    ELSE [background EXCEPT ![j] = [queue |-> Tail(@.queue), pc |-> "ready",
                                    awaiting |-> None]]

\* it raised: BackgroundTasks.__call__ stops, the calls behind it never run
Abandon(j) == RemoveAt(background, j)

\* rows of the employees table that satisfy the schema (test.py creates its
\* employees through the service; onboarding.db keeps them between runs)
StoredEmployee1 ==
    [id |-> "e01", name |-> "John Smith", email |-> "john.smith@company.com",
     phone |-> None, department |-> "Engineering", position |-> "Software Engineer",
     joining_date |-> "datetime:2025-01-06T00:00:00", manager_id |-> "MGR001",
     status |-> "active"]

StoredEmployee2 ==
    [id |-> "e02", name |-> "John Smith", email |-> "jsmith@company.com",
     phone |-> "+1-555-0102", department |-> "Sales", position |-> None,
     joining_date |-> "datetime:2025-01-13T00:00:00", manager_id |-> None,
     status |-> "active"]

Store(employees) ==
    [employees |-> employees, tasks |-> <<>>, access_requests |-> <<>>,
     notifications |-> <<>>]

\* Base.metadata.create_all leaves the rows of an existing onboarding.db in place
InitialStores ==
    {Store(<<>>), Store(<<StoredEmployee1>>), Store(<<StoredEmployee1, StoredEmployee2>>)}

\* test.py, create_worker_request: the request the test harness builds
HarnessRequest(intent, extra) ==
    WorkerRequest("test-" \o intent, "onboarding_agent", intent, "Test " \o intent, extra)

\* a request of another caller, with its own id, agent name and text
ClientRequest(request_id, intent, text, extra) ==
    WorkerRequest(request_id, "supervisor_agent", intent, text, extra)

\* test.py, test_data_collection: "Valid Employee - Engineering"
AlicePayload ==
    [name |-> "Alice Johnson", email |-> "alice.johnson@company.com",
     department |-> "Engineering", joining_date |-> "2025-02-01",
     position |-> "Senior Software Engineer", phone |-> "+1-555-0101"]

Requests ==
    { HarnessRequest("onboarding.create", AlicePayload),
      HarnessRequest("onboarding.collect_data", AlicePayload),
      HarnessRequest("onboarding.collect_data", [name |-> "Alice Johnson"]),
      HarnessRequest("onboarding.setup_access", EmptyDict),
      HarnessRequest("onboarding.setup_access", [employee_id |-> "e01"]),
      HarnessRequest("onboarding.setup_access", [employee_id |-> "e02"]),
      HarnessRequest("onboarding.setup_access", [employee_id |-> "invalid_id_12345"]),
      HarnessRequest("onboarding.assign_tasks",
                     [employee_id |-> "e01", department |-> "Engineering"]),
      HarnessRequest("onboarding.assign_tasks", [employee_id |-> "e02"]),
      HarnessRequest("onboarding.check_progress", EmptyDict),
      HarnessRequest("onboarding.check_progress", [employee_id |-> "e01"]),
      HarnessRequest("onboarding.check_progress", [employee_id |-> "invalid_id_12345"]),
      HarnessRequest("onboarding.send_notifications", EmptyDict),
      HarnessRequest("onboarding.send_notifications", [employee_id |-> "e01"]),
      HarnessRequest("onboarding.send_notifications",
                     [employee_id |-> "e01", type |-> "welcome"]),
      HarnessRequest("onboarding.generate_report", [report_type |-> "summary"]),
      HarnessRequest("onboarding.generate_report", [report_type |-> "issues"]),
      HarnessRequest("onboarding.generate_report", [employee_id |-> "e01"]),
      HarnessRequest("onboarding.get_status", [employee_id |-> "e01"]),
      HarnessRequest("onboarding.complete_task", [task_id |-> "a01"]),
      HarnessRequest("onboarding.complete_task", [employee_id |-> "e01"]),
      HarnessRequest("onboarding.complete_task",
                     [task_name |-> "Setup Workstation", employee_id |-> "e01"]),
      HarnessRequest("onboarding.complete_task", [task_name |-> "Setup Workstation"]),
      HarnessRequest("onboarding.invalid_intent", EmptyDict),
      ClientRequest("req-001", "onboarding.create",
                    "Create employee John Smith in Engineering department", EmptyDict),
      ClientRequest("req-002", "onboarding.setup_access",
                    "Setup access for employee", EmptyDict),
      ClientRequest("req-003", "onboarding.setup_access",
                    "Setup access for employee_id: e01", EmptyDict),
      ClientRequest("req-004", "onboarding.check_progress",
                    "Check progress for employee id e09", EmptyDict),
      ClientRequest("req-005", "onboarding.generate_report",
                    "Generate summary report", EmptyDict),
      ClientRequest("req-006", "onboarding.generate_report",
                    "Show issue alerts", [report_type |-> "summary"]),
      ClientRequest("req-007", "onboarding.get_status",
                    "Get onboarding status", EmptyDict),
      ClientRequest("req-008", "onboarding.complete_task",
                    "Mark task_id: a02 as complete", EmptyDict),
      ClientRequest("req-009", "onboarding.archive",
                    "Setup access for employee_id: e01", [employee_id |-> "e01"]) }

\* parse_input(request.input.text, request.input.metadata.extra) of every
\* request, computed once
ParsedInputs == {<<req, parse_input(req.text, req.extra)>> : req \in Requests}

ParsedInput(req) == (CHOOSE p \in ParsedInputs : p[1] = req)[2]

\* execute_intent: the field map, the handler called, the store and the
\* background calls left behind, and the WorkerResponse returned
execute_intent(store, req) ==
    With(ParsedInput(req), LAMBDA data :
    With(Route(req.intent), LAMBDA called :
        IF called = "none"
        THEN [input_data |-> data, handler |-> called, db |-> store, scheduled |-> <<>>,
              response |-> ErrorResponse(req, "unsupported_intent",
                               "Intent '" \o req.intent \o "' is not supported")]
        ELSE With(CallHandler(called, store, data), LAMBDA result :
            [input_data |-> data, handler |-> called, db |-> result.db,
             scheduled |-> result.scheduled,
             response |-> IF result.raised = None
                          THEN SuccessResponse(req, result.output[1])
                          ELSE ErrorResponse(req, "runtime_error", result.message)])))

Init ==
    /\ db \in InitialStores
    /\ background = <<>>
    /\ request = NoRequest
    /\ input_data = EmptyDict
    /\ handler = "none"
    /\ response = NoResponse
    /\ served = 0
    /\ outcome = NoOutcome

\* the state after execute_intent returned: the response, the store, and the
\* request's BackgroundTasks queued to run after the response
Respond(req, run) ==
    /\ served' = served + 1
    /\ request' = req
    /\ input_data' = run.input_data
    /\ handler' = run.handler
    /\ response' = run.response
    /\ db' = run.db
    /\ background' = IF run.scheduled = <<>> THEN background
                     ELSE Append(background, [queue |-> run.scheduled, pc |-> "ready",
                                              awaiting |-> None])
    /\ UNCHANGED outcome

\* POST /execute: execute_intent runs to its return without yielding; the calls
\* it added to BackgroundTasks run after the response, also when it raised
Execute(req) ==
    /\ served < MaxRequests
    /\ Respond(req, execute_intent(db, req))

\* the head call of request j's BackgroundTasks, when it is func and at pc
AtCall(j, func, pc) ==
    /\ background[j].queue[1].func = func
    /\ background[j].pc = pc

\* setup_all_access ran up to its next asyncio.sleep, or raised before it
SetupAccessSleep(j, pc, run) ==
    /\ db' = run.db
    /\ background' = IF run.raised # None THEN Abandon(j)
                     ELSE [background EXCEPT ![j].pc = pc, ![j].awaiting = run.value]
    /\ UNCHANGED <<request, input_data, handler, response, served, outcome>>

SetupAccessBegin(j, provider_ok) ==
    /\ AtCall(j, "setup_all_access", "ready")
    /\ SetupAccessSleep(j, "system_credentials_sleep",
                        setup_all_access_begin(db, background[j].queue[1].employee_id,
                                               provider_ok))

SetupAccessSystemDone(j) ==
    /\ AtCall(j, "setup_all_access", "system_credentials_sleep")
    /\ SetupAccessSleep(j, "workspace_sleep",
                        setup_all_access_system_done(db, background[j].queue[1].employee_id,
                                                     background[j].awaiting))

SetupAccessWorkspaceDone(j) ==
    /\ AtCall(j, "setup_all_access", "workspace_sleep")
    /\ db' = setup_all_access_workspace_done(db, background[j].awaiting).db
    /\ background' = Advance(j)
    /\ UNCHANGED <<request, input_data, handler, response, served, outcome>>

\* a notification call runs without yielding
RunNotification(j, run) ==
    /\ db' = run.db
    /\ background' = IF run.raised # None THEN Abandon(j) ELSE Advance(j)
    /\ UNCHANGED <<request, input_data, handler, response, served, outcome>>

SendWelcomeEmail(j, smtp_ok) ==
    /\ AtCall(j, "send_welcome_email", "ready")
    /\ RunNotification(j, send_welcome_email(db, background[j].queue[1].employee_id, smtp_ok))

SendTaskReminder(j, smtp_ok) ==
    /\ AtCall(j, "send_task_reminder", "ready")
    /\ RunNotification(j, send_task_reminder(db, background[j].queue[1].employee_id, smtp_ok))

SendBulkReminders(j, smtp_ok) ==
    /\ AtCall(j, "send_bulk_reminders", "ready")
    /\ RunNotification(j, send_bulk_reminders(db, smtp_ok))

Next ==
    \/ \E req \in Requests : Execute(req)
    \/ \E j \in 1..Len(background), provider_ok \in BOOLEAN : SetupAccessBegin(j, provider_ok)
    \/ \E j \in 1..Len(background) : SetupAccessSystemDone(j)
    \/ \E j \in 1..Len(background) : SetupAccessWorkspaceDone(j)
    \/ \E j \in 1..Len(background), smtp_ok \in BOOLEAN : SendWelcomeEmail(j, smtp_ok)
    \/ \E j \in 1..Len(background), smtp_ok \in BOOLEAN : SendTaskReminder(j, smtp_ok)
    \/ \E j \in 1..Len(background), smtp_ok \in BOOLEAN : SendBulkReminders(j, smtp_ok)

Spec == Init /\ [][Next]_vars

\* ------------------------------------------------------------------------
\* parse_input called on its own
\* ------------------------------------------------------------------------

Texts ==
    { "",
      "Test onboarding.generate_report",
      "Create employee John Smith in Engineering department",
      "Setup access for employee_id: e01",
      "Generate summary report",
      "Show issue alerts",
      "Mark task_id: a02 as complete",
      "Finish setup workstation." }

Extras ==
    { EmptyDict,
      [report_type |-> "summary"],
      [department |-> "Sales", type |-> "welcome"],
      [name |-> "Alice Johnson"],
      [name |-> None, report_type |-> "issues"],
      [employee_id |-> "e01", department |-> "Engineering"],
      [task_name |-> "Setup Workstation"],
      AlicePayload }

\* parse_input(text, extra) of every call, computed once
ParsedCalls ==
    {<<text, extra, parse_input(text, extra)>> : text \in Texts, extra \in Extras}

ParsedCall(text, extra) ==
    (CHOOSE call \in ParsedCalls : call[1] = text /\ call[2] = extra)[3]

ParseInit ==
    /\ db = Store(<<>>)
    /\ background = <<>>
    /\ request \in {WorkerRequest("parse", "caller", "", text, extra) :
                       text \in Texts, extra \in Extras}
    /\ input_data = EmptyDict
    /\ handler = "none"
    /\ response = NoResponse
    /\ served = 0
    /\ outcome = NoOutcome

\* input_data = parse_input(request.input.text, request.input.metadata.extra)
ParseInput ==
    /\ outcome.call = ""
    /\ input_data' = ParsedCall(request.text, request.extra)
    /\ outcome' = [call |-> "parse_input", args |-> <<request.text, request.extra>>,
                   raised |-> None, message |-> "", returned |-> <<>>]
    /\ UNCHANGED <<db, background, request, handler, response, served>>

ParseNext == ParseInput

SpecParse == ParseInit /\ [][ParseNext]_vars

\* ------------------------------------------------------------------------
\* DataCollector.create_employee called on its own
\* ------------------------------------------------------------------------

Names == {None, "", "John Smith"}

PersonalEmails == {None, "john.smith", "john@example.com", "john.smith@company.com"}

Departments == {None, "Engineering"}

JoiningDates == {"datetime:2025-02-01T00:00:00", "2025-02-01"}

\* what the caller of a service method sees
CallOutcome(call, args, run) ==
    [call |-> call, args |-> args, raised |-> run.raised, message |-> run.message,
     returned |-> IF run.raised = None THEN <<run.value>> ELSE <<>>]

CreateEmployee(name, personal_email, department, joining_date) ==
    /\ db' = create_employee(db, name, personal_email, department, joining_date,
                             None, None, None).db
    /\ outcome' = CallOutcome("create_employee",
                              <<name, personal_email, department, joining_date>>,
                              create_employee(db, name, personal_email, department,
                                              joining_date, None, None, None))
    /\ UNCHANGED <<background, request, input_data, handler, response, served>>

CollectorNext ==
    \E name \in Names, personal_email \in PersonalEmails, department \in Departments,
       joining_date \in JoiningDates :
        CreateEmployee(name, personal_email, department, joining_date)

SpecCollector == Init /\ [][CollectorNext]_vars

\* ------------------------------------------------------------------------
\* Properties
\* ------------------------------------------------------------------------

\* a step in which POST /execute answered a request
Answered == served' = served + 1

\* C1: every response echoes the request's request_id and agent_name and has
\* status "success" or "error"; a success has an output with a result and no
\* error, an error has an error and no output
UniformEnvelope ==
    served > 0 =>
        /\ response.request_id = request.request_id
        /\ response.agent_name = request.agent_name
        /\ response.status \in {"success", "error"}
        /\ response.status = "success" =>
              /\ response.output # <<>>
              /\ "result" \in DOMAIN response.output[1]
              /\ response.error = <<>>
        /\ response.status = "error" =>
              /\ response.error # <<>>
              /\ response.output = <<>>

\* an error answered to a caller that is not this service's own test harness
UniformEnvelopeWitness ==
    /\ served > 0
    /\ request.agent_name = "supervisor_agent"
    /\ request.intent = "onboarding.get_status"
    /\ response.status = "error"
    /\ response.agent_name = "supervisor_agent"
    /\ response.request_id = "req-007"

\* C2: a request whose intent is none of the nine supported ones is answered
\* with an error of type "unsupported_intent", no handler is called for it,
\* and no record and no background call is created or changed
UnsupportedIntentRejected ==
    [][(Answered /\ request'.intent \notin SupportedIntents) =>
          /\ response'.status = "error"
          /\ response'.error # <<>>
          /\ response'.error[1].type = "unsupported_intent"
          /\ handler' = "none"
          /\ db' = db
          /\ background' = background]_vars

\* an unsupported intent that names a stored employee, answered over a store
\* that holds records
UnsupportedIntentRejectedWitness ==
    /\ served > 0
    /\ request.intent = "onboarding.archive"
    /\ Get(request.extra, "employee_id") = "e01"
    /\ db.employees # <<>>
    /\ response.status = "error"
    /\ response.error[1].type = "unsupported_intent"

\* the request texts in which extract_employee_id finds no id
TextsWithoutEmployeeId ==
    {req.text : req \in {r \in Requests : ~Truthy(extract_employee_id(StrLower(r.text)))}}

\* C3: an onboarding.setup_access request with no employee_id in its payload
\* and none in its text is answered with an error, schedules no access setup
\* and creates no access request
SetupAccessNeedsEmployeeId ==
    [][(/\ Answered
        /\ request'.intent = "onboarding.setup_access"
        /\ ~Truthy(Get(request'.extra, "employee_id"))
        /\ request'.text \in TextsWithoutEmployeeId) =>
          /\ response'.status = "error"
          /\ background' = background
          /\ db'.access_requests = db.access_requests]_vars

SetupAccessNeedsEmployeeIdWitness ==
    /\ served > 0
    /\ request.intent = "onboarding.setup_access"
    /\ request.text = "Setup access for employee"
    /\ request.extra = EmptyDict
    /\ ~Truthy(Get(input_data, "employee_id"))
    /\ response.status = "error"
    /\ response.error[1].message = "employee_id is required"

\* C4: an onboarding.check_progress request whose employee_id matches no
\* stored employee is answered with an error, and the store is unchanged
UnknownEmployeeProgressIsError ==
    [][(/\ Answered
        /\ request'.intent = "onboarding.check_progress"
        /\ Truthy(Get(input_data', "employee_id"))
        /\ get_employee(db, Get(input_data', "employee_id")) = NoRow) =>
          /\ response'.status = "error"
          /\ db' = db]_vars

UnknownEmployeeProgressIsErrorWitness ==
    /\ served > 0
    /\ request.intent = "onboarding.check_progress"
    /\ Get(input_data, "employee_id") = "invalid_id_12345"
    /\ db.employees # <<>>
    /\ response.status = "error"

\* the payload gives these keys with a value
Gives(extra, keys) == \A key \in keys : Truthy(Get(extra, key))

\* C5: an onboarding.collect_data request whose payload gives name, email,
\* department and joining_date, for an email not yet stored, is answered with
\* success, stores exactly one new employee, and reports that employee's id in
\* the details
CollectDataStoresEmployee ==
    [][(/\ Answered
        /\ request'.intent = "onboarding.collect_data"
        /\ Gives(request'.extra, {"name", "email", "department", "joining_date"})
        /\ \A k \in 1..Len(db.employees) : db.employees[k].email # request'.extra.email) =>
          /\ response'.status = "success"
          /\ Len(db'.employees) = Len(db.employees) + 1
          /\ SubSeq(db'.employees, 1, Len(db.employees)) = db.employees
          /\ Contains(response'.output[1].details,
                      "Employee ID: " \o db'.employees[Len(db'.employees)].id)]_vars

\* the harness's valid employee, answered with the TypeError of the call
CollectDataRaises ==
    /\ served > 0
    /\ request = HarnessRequest("onboarding.collect_data", AlicePayload)
    /\ response.status = "error"
    /\ response.error[1].type = "runtime_error"
    /\ MatchAt(response.error[1].message, 1, "DataCollector.create_employee() got an unexpected")

\* C6: an onboarding.create request whose payload gives name, email,
\* department, joining_date and position is answered with success, its details
\* hold employee_id, tasks_assigned, access_requests_initiated and report, and
\* after it the new employee and tasks of that employee are stored
CreateOnboardingStoresEmployee ==
    [][(/\ Answered
        /\ request'.intent = "onboarding.create"
        /\ Gives(request'.extra,
                 {"name", "email", "department", "joining_date", "position"})) =>
          /\ response'.status = "success"
          /\ {"employee_id", "tasks_assigned", "access_requests_initiated", "report"}
                \subseteq DOMAIN response'.output[1].details.json
          /\ Len(db'.employees) = Len(db.employees) + 1
          /\ \E k \in 1..Len(db'.tasks) :
                db'.tasks[k].employee_id = db'.employees[Len(db'.employees)].id]_vars

CreateOnboardingRaises ==
    /\ served > 0
    /\ request = HarnessRequest("onboarding.create", AlicePayload)
    /\ response.status = "error"
    /\ MatchAt(response.error[1].message, 1, "DataCollector.create_employee() got an unexpected")
    /\ db.tasks = <<>>

\* C7: an onboarding.generate_report request whose payload holds report_type
\* "summary" or "issues" and no employee_id is answered with success, with the
\* summary report or the issue alerts: the report type of the payload is the
\* one the handler uses
ReportTypeFromPayload ==
    [][(/\ Answered
        /\ request'.intent = "onboarding.generate_report"
        /\ Get(request'.extra, "report_type") \in {"summary", "issues"}
        /\ "employee_id" \notin DOMAIN request'.extra) =>
          /\ response'.status = "success"
          /\ Get(input_data', "report_type") = request'.extra.report_type
          /\ request'.extra.report_type = "summary" =>
                response'.output[1].result = "Summary report generated"
          /\ request'.extra.report_type = "issues" =>
                MatchAt(response'.output[1].result, 1, "Found ")]_vars

\* the harness's summary request, answered as an employee report without an id
ReportTypeIgnored ==
    /\ served > 0
    /\ request = HarnessRequest("onboarding.generate_report", [report_type |-> "summary"])
    /\ Get(input_data, "report_type") = "employee"
    /\ response.status = "error"
    /\ response.error[1].message = "employee_id is required for employee report"

Rejected(store, args) ==
    \/ ~Truthy(args[1]) \/ ~Truthy(args[2]) \/ ~Truthy(args[3])
    \/ ~Contains(args[2], "@")
    \/ \E k \in 1..Len(store.employees) : store.employees[k].email = args[2]
    \/ ~IsDatetime(args[4])

\* C10: create_employee raises ValueError and stores nothing when name,
\* personal email or department is missing, the email has no '@', the email is
\* already stored or joining_date is no datetime; otherwise it stores exactly
\* one new employee with status "active" and returns it with a generated id
CreateEmployeeContract ==
    [][outcome'.call = "create_employee" =>
          IF Rejected(db, outcome'.args)
          THEN /\ outcome'.raised = "ValueError"
               /\ db'.employees = db.employees
          ELSE /\ outcome'.raised = None
               /\ Len(db'.employees) = Len(db.employees) + 1
               /\ SubSeq(db'.employees, 1, Len(db.employees)) = db.employees
               /\ db'.employees[Len(db'.employees)].status = "active"
               /\ outcome'.returned = <<db'.employees[Len(db'.employees)]>>
               /\ Truthy(outcome'.returned[1].id)]_vars

\* a call with every argument valid, ended by the missing lookup
CreateEmployeeRaises ==
    /\ outcome.call = "create_employee"
    /\ outcome.args = <<"John Smith", "john@example.com", "Engineering",
                        "datetime:2025-02-01T00:00:00">>
    /\ outcome.raised = "AttributeError"
    /\ db.employees = <<>>

\* a task title that a task name given in a request matches
Matches(title, task_name) == Contains(StrLower(title), StrLower(task_name))

\* the pending tasks of an employee that match a task name
MatchingTasks(store, employee_id, task_name) ==
    {k \in 1..Len(store.tasks) :
        /\ store.tasks[k].employee_id = employee_id
        /\ store.tasks[k].status = "pending"
        /\ Matches(store.tasks[k].title, task_name)}

\* C11: an onboarding.complete_task request with task_name and employee_id and
\* no task_id completes a matching task of that employee and is answered with
\* success; with task_name alone it is answered with success when some
\* employee has a matching task and with an error only when none has
CompleteTaskByName ==
    [][(/\ Answered
        /\ request'.intent = "onboarding.complete_task"
        /\ Truthy(Get(input_data', "task_name"))
        /\ ~Truthy(Get(input_data', "task_id"))) =>
          IF Truthy(Get(input_data', "employee_id"))
          THEN MatchingTasks(db, input_data'.employee_id, input_data'.task_name) # {} =>
                  /\ response'.status = "success"
                  /\ \E k \in MatchingTasks(db, input_data'.employee_id,
                                            input_data'.task_name) :
                        db'.tasks[k].status = "completed"
          ELSE (response'.status = "error") <=>
                  (\A e \in 1..Len(db.employees) :
                      MatchingTasks(db, db.employees[e].id, input_data'.task_name) = {})]_vars

\* the employee has the task, and the request to complete it by name is
\* answered with the AttributeError of the missing TaskManager method
CompleteTaskByNameRaises ==
    /\ served > 0
    /\ request.intent = "onboarding.complete_task"
    /\ Get(input_data, "task_name") = "Setup Workstation"
    /\ Get(input_data, "employee_id") = "e01"
    /\ MatchingTasks(db, "e01", "Setup Workstation") # {}
    /\ response.status = "error"
    /\ response.error[1].message
          = "'TaskManager' object has no attribute 'complete_task_by_name'"

\* C12: the onboarding.create flow carries out data collection, access setup,
\* task assignment, monitoring initialisation, welcome notification and report
\* generation in this order for the new employee: when the report is returned
\* the employee is stored, and its access requests, its tasks and its welcome
\* notification have been created, the access requests before the tasks and
\* the notification before the report
CreateFlowInOrder ==
    [][(/\ Answered
        /\ request'.intent = "onboarding.create"
        /\ Gives(input_data', {"name", "email", "department", "joining_date"})) =>
          /\ response'.status = "success"
          /\ Len(db'.employees) = Len(db.employees) + 1
          /\ LET id == db'.employees[Len(db'.employees)].id
             IN /\ \E k \in 1..Len(db'.access_requests) :
                      db'.access_requests[k].employee_id = id
                /\ \E k \in 1..Len(db'.tasks) : db'.tasks[k].employee_id = id
                /\ \E k \in 1..Len(db'.notifications) :
                      /\ db'.notifications[k].employee_id = id
                      /\ db'.notifications[k].type = "welcome"]_vars

\* a create request in plain text, ended at its first step: nothing of the
\* later steps exists and nothing is left scheduled
CreateFlowStopsAtFirstStep ==
    /\ served = 1
    /\ request.request_id = "req-001"
    /\ Gives(input_data, {"name", "email", "department", "joining_date"})
    /\ response.status = "error"
    /\ background = <<>>
    /\ db.tasks = <<>>
    /\ db.access_requests = <<>>
    /\ db.notifications = <<>>

\* ------------------------------------------------------------------------
\* AccessManager.request_email_account called on its own
\* ------------------------------------------------------------------------

\* number of email accounts requested in a behaviour
MaxEmailCalls == 5

RequestEmailAccount(employee_id, provider_ok) ==
    /\ Len(db.access_requests) < MaxEmailCalls
    /\ get_employee(db, employee_id) # NoRow
    /\ db' = request_email_account(db, employee_id, provider_ok).db
    /\ outcome' = [call |-> "request_email_account",
                   args |-> <<employee_id, provider_ok>>,
                   raised |-> None, message |-> "",
                   returned |->
                      <<[k \in {"email_address", "is_fallback", "provider_calls"} |->
                            request_email_account(db, employee_id, provider_ok)[k]]>>]
    /\ UNCHANGED <<background, request, input_data, handler, response, served>>

EmailNext ==
    \E employee_id \in {"e01", "e02"}, provider_ok \in BOOLEAN :
        RequestEmailAccount(employee_id, provider_ok)

SpecEmail == Init /\ [][EmailNext]_vars

MaxStoredTasks == 25

AssignOnboardingTasks(employee_id, department) ==
    /\ Len(db.tasks) < MaxStoredTasks
    /\ db' = assign_onboarding_tasks(db, employee_id, department).db
    /\ outcome' = CallOutcome("assign_onboarding_tasks", <<employee_id, department>>,
                              assign_onboarding_tasks(db, employee_id, department))
    /\ UNCHANGED <<background, request, input_data, handler, response, served>>

AssignNext ==
    \E employee_id \in {"e01", "e02", "e09"}, department \in {None, "Engineering", "Sales"} :
        AssignOnboardingTasks(employee_id, department)

SpecAssign == Init /\ [][AssignNext]_vars

\* the number of PENDING tasks of an employee with a title
CopiesOf(store, employee_id, title) ==
    Cardinality({k \in 1..Len(store.tasks) :
                    /\ store.tasks[k].employee_id = employee_id
                    /\ store.tasks[k].title = title
                    /\ store.tasks[k].status = "pending"})

\* the titles of the core, department and role-training tasks of an assignment
AssignedTitles(store, employee_id, department) ==
    {core_task_data[k][1] : k \in 1..Len(core_task_data)}
    \cup (IF Truthy(department)
          THEN {dept_tasks_map(department)[k][1] : k \in 1..Len(dept_tasks_map(department))}
          ELSE {})
    \cup (IF Truthy(get_employee(store, employee_id)[1].position)
          THEN {"Complete " \o get_employee(store, employee_id)[1].position
                  \o " Role Training"}
          ELSE {})

\* C14: every call of assign_onboarding_tasks for a stored employee adds one
\* more PENDING copy of each core, department and role-training task and
\* nothing else, whatever tasks the employee already has, so n calls leave n
\* copies; for an unknown employee it raises ValueError and creates no task
AssignmentNotIdempotent ==
    [][outcome'.call = "assign_onboarding_tasks" =>
          IF get_employee(db, outcome'.args[1]) = NoRow
          THEN /\ outcome'.raised = "ValueError"
               /\ db'.tasks = db.tasks
          ELSE /\ outcome'.raised = None
               /\ SubSeq(db'.tasks, 1, Len(db.tasks)) = db.tasks
               /\ Len(db'.tasks) - Len(db.tasks)
                     = Cardinality(AssignedTitles(db, outcome'.args[1], outcome'.args[2]))
               /\ \A title \in AssignedTitles(db, outcome'.args[1], outcome'.args[2]) :
                     CopiesOf(db', outcome'.args[1], title)
                        = CopiesOf(db, outcome'.args[1], title) + 1]_vars

\* three calls for e01 in Engineering: three copies of a core task, of a
\* department task and of the role training
AssignmentNotIdempotentWitness ==
    /\ outcome.call = "assign_onboarding_tasks"
    /\ outcome.args = <<"e01", "Engineering">>
    /\ CopiesOf(db, "e01", "Complete HR Onboarding Forms") = 3
    /\ CopiesOf(db, "e01", "Setup Development Environment") = 3
    /\ CopiesOf(db, "e01", "Complete Software Engineer Role Training") = 3
    /\ Len(db.tasks) = 36

\* a step in which a run of setup_all_access ended by an exception after it
\* had created a request: the run leaves the background calls, no request
\* being answered
SetupFailedAfterEmail ==
    /\ served' = served
    /\ Len(db'.access_requests) > Len(db.access_requests)
    /\ \E j \in 1..Len(background) :
          /\ AtCall(j, "setup_all_access", "ready")
          /\ background' = RemoveAt(background, j)

\* C15: when setup_all_access fails after its email step, the EMAIL request it
\* created stays stored COMPLETED, the requests stored before are untouched,
\* nothing is marked FAILED, the employee record is unchanged and the run
\* creates no request of a later step
NoCompensationOnFailure ==
    [][SetupFailedAfterEmail =>
          /\ Len(db'.access_requests) = Len(db.access_requests) + 1
          /\ SubSeq(db'.access_requests, 1, Len(db.access_requests)) = db.access_requests
          /\ db'.access_requests[Len(db'.access_requests)].access_type = "email"
          /\ db'.access_requests[Len(db'.access_requests)].status = "completed"
          /\ \A k \in 1..Len(db'.access_requests) : db'.access_requests[k].status # "failed"
          /\ db'.employees = db.employees
          /\ db'.tasks = db.tasks]_vars

\* the fallback address of e02 is the one e01 already holds: the run for e02
\* ended with its EMAIL request alone, COMPLETED, and the record of e02 as it was
NoCompensationOnFailureWitness ==
    /\ background = <<>>
    /\ get_employee(db, "e01") # NoRow
    /\ get_employee(db, "e01")[1].email = "john.smith@fallback.local"
    /\ get_employee(db, "e02") # NoRow
    /\ get_employee(db, "e02")[1].email = "jsmith@company.com"
    /\ \E k \in 1..Len(db.access_requests) :
          /\ db.access_requests[k].employee_id = "e02"
          /\ db.access_requests[k].status = "completed"
    /\ \A k \in 1..Len(db.access_requests) :
          db.access_requests[k].employee_id = "e02" =>
             db.access_requests[k].access_type = "email"

\* the number of access requests of an employee with a type, all of them or
\* the COMPLETED ones
RequestsOf(store, employee_id, access_type) ==
    Cardinality({k \in 1..Len(store.access_requests) :
                    /\ store.access_requests[k].employee_id = employee_id
                    /\ store.access_requests[k].access_type = access_type})

CompletedOf(store, employee_id, access_type) ==
    Cardinality({k \in 1..Len(store.access_requests) :
                    /\ store.access_requests[k].employee_id = employee_id
                    /\ store.access_requests[k].access_type = access_type
                    /\ store.access_requests[k].status = "completed"})

\* C16: a run of setup_all_access creates EMAIL, then SYSTEM_CREDENTIALS, then
\* WORKSPACE: a request is new PENDING (the EMAIL one is COMPLETED before the
\* run first yields), a request of a later step exists only once the request
\* of the step before it is COMPLETED, a stored request keeps its place and
\* moves only from PENDING to COMPLETED, and none is ever FAILED
ProvisioningInOrder ==
    [][/\ \A k \in 1..Len(db.access_requests) :
             /\ k <= Len(db'.access_requests)
             /\ db'.access_requests[k].id = db.access_requests[k].id
             /\ db'.access_requests[k].access_type = db.access_requests[k].access_type
             /\ db'.access_requests[k].status
                   \in {db.access_requests[k].status, "completed"}
       /\ \A k \in (Len(db.access_requests) + 1)..Len(db'.access_requests) :
             \/ db'.access_requests[k].status = "pending"
             \/ /\ db'.access_requests[k].access_type = "email"
                /\ db'.access_requests[k].status = "completed"
       /\ \A k \in 1..Len(db'.access_requests) :
             /\ db'.access_requests[k].status # "failed"
             /\ db'.access_requests[k].access_type = "system_credentials" =>
                   /\ k > 1
                   /\ db'.access_requests[k - 1].access_type = "email"
                   /\ db'.access_requests[k - 1].employee_id
                         = db'.access_requests[k].employee_id
                   /\ db'.access_requests[k - 1].status = "completed"
             /\ RequestsOf(db', db'.access_requests[k].employee_id, "workspace")
                   <= CompletedOf(db', db'.access_requests[k].employee_id,
                                  "system_credentials")
             /\ RequestsOf(db', db'.access_requests[k].employee_id, "system_credentials")
                   <= CompletedOf(db', db'.access_requests[k].employee_id, "email")]_vars

\* a run for e01 at its second sleep: EMAIL and SYSTEM_CREDENTIALS COMPLETED,
\* WORKSPACE just created
ProvisioningInOrderWitness ==
    /\ Len(db.access_requests) = 3
    /\ \A k \in 1..3 : db.access_requests[k].employee_id = "e01"
    /\ db.access_requests[1].access_type = "email"
    /\ db.access_requests[1].status = "completed"
    /\ db.access_requests[2].access_type = "system_credentials"
    /\ db.access_requests[2].status = "completed"
    /\ db.access_requests[3].access_type = "workspace"
    /\ db.access_requests[3].status = "pending"
    /\ Len(background) = 1
    /\ background[1].pc = "workspace_sleep"

\* ------------------------------------------------------------------------
\* The service with its event loop running every call it was given
\* ------------------------------------------------------------------------

\* a step of a background call: asyncio runs each scheduled call and resumes
\* each coroutine whose sleep has expired
BackgroundStep ==
    \/ \E j \in 1..Len(background), provider_ok \in BOOLEAN : SetupAccessBegin(j, provider_ok)
    \/ \E j \in 1..Len(background) : SetupAccessSystemDone(j)
    \/ \E j \in 1..Len(background) : SetupAccessWorkspaceDone(j)
    \/ \E j \in 1..Len(background), smtp_ok \in BOOLEAN : SendWelcomeEmail(j, smtp_ok)
    \/ \E j \in 1..Len(background), smtp_ok \in BOOLEAN : SendTaskReminder(j, smtp_ok)
    \/ \E j \in 1..Len(background), smtp_ok \in BOOLEAN : SendBulkReminders(j, smtp_ok)

SpecFair == Spec /\ WF_vars(BackgroundStep)

\* a call of setup_all_access for the employee is the running call of some
\* request's BackgroundTasks, about to start or at one of its sleeps
SetupRunning(employee_id) ==
    \E j \in 1..Len(background) :
        /\ background[j].queue[1].func = "setup_all_access"
        /\ background[j].queue[1].employee_id = employee_id

\* the number of complete sets of COMPLETED requests the employee has
CompletedSets(employee_id) ==
    CHOOSE n \in 0..MaxRequests :
        /\ \A t \in {"email", "system_credentials", "workspace"} :
              CompletedOf(db, employee_id, t) >= n
        /\ \E t \in {"email", "system_credentials", "workspace"} :
              CompletedOf(db, employee_id, t) = n

\* C17: a run of setup_all_access for a stored employee eventually leaves one
\* more EMAIL, SYSTEM_CREDENTIALS and WORKSPACE request of the employee, all
\* COMPLETED, whatever the inbox provider answers and whatever interleaves
SetupRunCompletes ==
    \A employee_id \in {"e01", "e02"}, n \in 0..MaxRequests :
        (/\ SetupRunning(employee_id)
         /\ get_employee(db, employee_id) # NoRow
         /\ CompletedSets(employee_id) = n)
            ~> (CompletedSets(employee_id) > n)

\* both provider calls failed: every call has run, e01 has its three requests
\* COMPLETED and e02, whose fallback address e01 holds, its EMAIL request only
SetupRunAbandoned ==
    /\ background = <<>>
    /\ served = MaxRequests
    /\ CompletedSets("e01") = 1
    /\ RequestsOf(db, "e02", "email") = 1
    /\ RequestsOf(db, "e02", "system_credentials") = 0
    /\ RequestsOf(db, "e02", "workspace") = 0

\* the employee ids of the requests
RequestedIds == {"e01", "e02", "invalid_id_12345"}

\* the last request was onboarding.setup_access for the employee id and was
\* answered "success"
SetupAccessInitiated(employee_id) ==
    /\ served > 0
    /\ handler = "handle_setup_access"
    /\ response.status = "success"
    /\ Get(input_data, "employee_id") = employee_id

AccessRequestsOf(employee_id) ==
    Cardinality({k \in 1..Len(db.access_requests) :
                    db.access_requests[k].employee_id = employee_id})

\* C18: after a "success" response to onboarding.setup_access for an employee
\* id, access requests for that id are eventually created
InitiatedSetupCreatesRequests ==
    \A employee_id \in RequestedIds, n \in 0..(3 * MaxRequests) :
        (SetupAccessInitiated(employee_id) /\ AccessRequestsOf(employee_id) = n)
            ~> (AccessRequestsOf(employee_id) > n)

\* "Access setup initiated for employee invalid_id_12345" was answered, every
\* call has run and no access request is stored
InitiatedSetupCreatedNothing ==
    /\ SetupAccessInitiated("invalid_id_12345")
    /\ response.output[1].result = "Access setup initiated for employee invalid_id_12345"
    /\ background = <<>>
    /\ db.access_requests = <<>>

\* ------------------------------------------------------------------------
\* ProgressMonitor.get_employee_progress called on its own
\* ------------------------------------------------------------------------

\* tasks are created while fewer than this are stored
MaxProgressTasks == 4

\* db.create_task(Task(employee_id, title, ...)): a new task, PENDING
CreateTask(employee_id) ==
    /\ Len(db.tasks) < MaxProgressTasks
    /\ db' = [db EXCEPT !.tasks = CreateTasks(@, employee_id, <<core_task_data[1]>>)]
    /\ UNCHANGED <<background, request, input_data, handler, response, served, outcome>>

\* db.update_task(task_id, status=...): complete_task writes COMPLETED on
\* any task, check_overdue_tasks writes OVERDUE on a PENDING task
UpdateTask(k, status) ==
    /\ k \in 1..Len(db.tasks)
    /\ status = "overdue" => db.tasks[k].status = "pending"
    /\ db' = [db EXCEPT !.tasks[k].status = status]
    /\ UNCHANGED <<background, request, input_data, handler, response, served, outcome>>

GetEmployeeProgress(employee_id) ==
    /\ outcome' = CallOutcome("get_employee_progress", <<employee_id>>,
                              get_employee_progress(db, employee_id))
    /\ UNCHANGED <<db, background, request, input_data, handler, response, served>>

ProgressNext ==
    \/ \E employee_id \in {"e01", "e02"} : CreateTask(employee_id)
    \/ \E k \in 1..MaxProgressTasks, status \in {"completed", "overdue"} :
          UpdateTask(k, status)
    \/ \E employee_id \in {"e01", "e02", "e09"} : GetEmployeeProgress(employee_id)

SpecProgress == Init /\ [][ProgressNext]_vars

\* the number of tasks of an employee with a status
TasksWith(employee_id, status) ==
    Cardinality({k \in 1..Len(db.tasks) :
                    /\ db.tasks[k].employee_id = employee_id
                    /\ db.tasks[k].status = status})

TasksOf(employee_id) ==
    Cardinality({k \in 1..Len(db.tasks) : db.tasks[k].employee_id = employee_id})

\* the status the progress of an employee with tasks is reported with
ExpectedStatus(employee_id) ==
    IF TasksWith(employee_id, "completed") = TasksOf(employee_id) THEN "completed"
    ELSE IF TasksWith(employee_id, "overdue") >= 1 THEN "needs_attention"
    ELSE IF 100 * TasksWith(employee_id, "completed") >= 75 * TasksOf(employee_id)
    THEN "on_track"
    ELSE IF 100 * TasksWith(employee_id, "completed") >= 50 * TasksOf(employee_id)
    THEN "in_progress"
    ELSE IF TasksWith(employee_id, "completed") > 0 THEN "started"
    ELSE "not_started"

\* C19: for every stored employee get_employee_progress returns
\* "no_tasks_assigned" and 0 percent when the employee has no task, else the
\* status of the chain completed / needs_attention / on_track / in_progress /
\* started / not_started; and its four counts are the numbers of the
\* employee's tasks, of all and of the COMPLETED, PENDING and OVERDUE ones
ProgressReportsTaskCounts ==
    \A employee_id \in {"e01", "e02"} :
        get_employee(db, employee_id) # NoRow =>
            /\ get_employee_progress(db, employee_id).raised = None
            /\ LET progress == get_employee_progress(db, employee_id).value
               IN /\ progress.total_tasks = TasksOf(employee_id)
                  /\ progress.completed_tasks = TasksWith(employee_id, "completed")
                  /\ progress.pending_tasks = TasksWith(employee_id, "pending")
                  /\ progress.overdue_tasks = TasksWith(employee_id, "overdue")
                  /\ TasksOf(employee_id) = 0 =>
                        /\ progress.status = "no_tasks_assigned"
                        /\ progress.completion_percentage = 0
                  /\ TasksOf(employee_id) > 0 =>
                        progress.status = ExpectedStatus(employee_id)

\* e01 has four tasks, three of them COMPLETED and one PENDING, and
\* get_employee_progress returned "on_track" at 75.0 percent
ProgressReportsTaskCountsWitness ==
    /\ outcome.call = "get_employee_progress"
    /\ outcome.args = <<"e01">>
    /\ outcome.raised = None
    /\ TasksOf("e01") = 4
    /\ TasksWith("e01", "completed") = 3
    /\ TasksWith("e01", "pending") = 1
    /\ outcome.returned[1].status = "on_track"
    /\ outcome.returned[1].completion_percentage = 750
    /\ outcome.returned[1].pending_tasks = 1

\* ------------------------------------------------------------------------
\* extract_position and extract_department called on their own
\* ------------------------------------------------------------------------

\* the texts are made of up to this many words
MaxWords == 2

\* words of lower-cased request texts: with and without keywords, and with
\* keywords inside other words
Words ==
    {"hire", "a", "senior", "engineer", "manager", "sales", "marketing", "legal",
     "lead", "within", "three", "engineering"}

RECURSIVE TextsOfWords(_)
TextsOfWords(n) ==
    IF n = 1 THEN Words
    ELSE TextsOfWords(n - 1)
         \cup {t \o " " \o w : t \in TextsOfWords(n - 1), w \in Words}

KeywordTexts == TextsOfWords(MaxWords)

\* extract_position and extract_department of every text, computed once
ExtractedKeywords ==
    {<<text_lower, extract_position(text_lower), extract_department(text_lower)>> :
        text_lower \in KeywordTexts}

Extracted(text_lower) == CHOOSE p \in ExtractedKeywords : p[1] = text_lower

ExtractPosition(text_lower) ==
    /\ outcome' = CallOutcome("extract_position", <<text_lower>>,
                              Returned(db, Extracted(text_lower)[2]))
    /\ UNCHANGED <<db, background, request, input_data, handler, response, served>>

ExtractDepartment(text_lower) ==
    /\ outcome' = CallOutcome("extract_department", <<text_lower>>,
                              Returned(db, Extracted(text_lower)[3]))
    /\ UNCHANGED <<db, background, request, input_data, handler, response, served>>

KeywordNext ==
    \/ \E text_lower \in KeywordTexts : ExtractPosition(text_lower)
    \/ \E text_lower \in KeywordTexts : ExtractDepartment(text_lower)

SpecKeywords == Init /\ [][KeywordNext]_vars

\* the value of the first keyword of a table that occurs in a text
FirstOccurring(table, text_lower, default) ==
    LET hits == {k \in 1..Len(table) : Contains(text_lower, table[k][1])}
    IN IF hits = {} THEN default
       ELSE table[CHOOSE k \in hits : \A j \in hits : k <= j][2]

\* C20: extract_position returns the position of the first keyword of its
\* table that occurs in the text, "Senior Software Engineer" for a text
\* containing "senior engineer" and "New Hire" when no keyword occurs;
\* extract_department returns the department of the first keyword of its
\* table that occurs in the text, and None when none occurs
KeywordExtraction ==
    /\ outcome.call = "extract_position" =>
          /\ outcome.returned[1] = FirstOccurring(positions, outcome.args[1], "New Hire")
          /\ Contains(outcome.args[1], "senior engineer") =>
                outcome.returned[1] = "Senior Software Engineer"
    /\ outcome.call = "extract_department" =>
          outcome.returned[1] = FirstOccurring(departments, outcome.args[1], None)

\* "engineer" precedes "senior engineer" in the table and occurs in every text
\* that contains it
SeniorEngineerIsSoftwareEngineer ==
    /\ outcome.call = "extract_position"
    /\ outcome.args = <<"senior engineer">>
    /\ outcome.returned = <<"Software Engineer">>

====
